---------------------------- MODULE Spec2Model ----------------------------
(***************************************************************************)
(* A model of the Ape language core (src/Ape/Ape.cpp): the lexer, the      *)
(* precedence-climbing parser, the bytecode compiler and the stack VM.     *)
(*                                                                         *)
(* Source text is a sequence of one-character strings.  The lexer, parser  *)
(* and compiler are recursive operators that compute what the C++ code     *)
(* computes; the VM's dispatch loop is an action that runs one iteration   *)
(* of VM::run per step.  Bytecode is a sequence of bytes (0..255), with    *)
(* immediates laid out as the emitters write them on a little-endian       *)
(* machine.                                                                *)
(*                                                                         *)
(* LexSpec drives the lexer alone, one next() at a time, over short texts. *)
(* LiveSpec is Spec over the integer programs with the fairness of         *)
(* sequential code.  SproutSpec is Demo() of the statement language of     *)
(* src/Sprout: its lexer, parser, compiler and VM.                         *)
(***************************************************************************)
EXTENDS Integers, Sequences, FiniteSets, TLC

VARIABLES
    src,        \* the source text handed to Parser (main's `demo`)
    pc,         \* where main() is: "parse", "compile", "entry" (of run), "loop",
                \* "returned" (from run), "done", "thrown", "undefined"
    what,       \* the message of the exception that ended main's try block, or ""
    errtok,     \* the parser's current token when a parse error was thrown
    prog,       \* Program: the sequence of FuncDecl parse_program returned
    functions,  \* VM::functions: name -> FunctionBytecode
    stack,      \* VM::stack, the shared operand stack
    frames,     \* VM::frames, the frame stack (top is the last element)
    trace,      \* the function and offset each dispatch-loop iteration fetched from
    cerr,       \* what the run has printed to cerr so far
    cout,       \* what the run has printed to cout so far
    lex,        \* a Lexer over src that is driven one next() at a time: [i, line]
    tokens,     \* the tokens that lexer's next() has returned so far
    compiler,   \* Sprout's Compiler object: [byteCode, varNames]
    vm,         \* Sprout's VM object: [code, pc, stack, vars]
    input       \* the description of the program that src was written from

vars == <<src, pc, what, errtok, prog, functions, stack, frames, trace, cerr, cout, lex,
          tokens, compiler, vm, input>>

-----------------------------------------------------------------------------
(* Characters *)

\* '\0', which peek() and get() return at the end of the input
NUL == "NUL"

Digits == {"0", "1", "2", "3", "4", "5", "6", "7", "8", "9"}

Lower == {"a", "b", "c", "d", "e", "f", "g", "h", "i", "j", "k", "l", "m",
          "n", "o", "p", "q", "r", "s", "t", "u", "v", "w", "x", "y", "z"}

Upper == {"A", "B", "C", "D", "E", "F", "G", "H", "I", "J", "K", "L", "M",
          "N", "O", "P", "Q", "R", "S", "T", "U", "V", "W", "X", "Y", "Z"}

isalpha(c) == c \in Lower \cup Upper
isdigit(c) == c \in Digits
isalnum(c) == isalpha(c) \/ isdigit(c)

\* The printable ASCII characters in code order, from 32 (space) to 126 (~); the
\* grave accent (96) cannot be written in a string and is spelled out
Printable ==
    <<" ", "!", "\"", "#", "$", "%", "&", "'", "(", ")", "*", "+", ",", "-", ".", "/",
      "0", "1", "2", "3", "4", "5", "6", "7", "8", "9", ":", ";", "<", "=", ">", "?",
      "@", "A", "B", "C", "D", "E", "F", "G", "H", "I", "J", "K", "L", "M", "N", "O",
      "P", "Q", "R", "S", "T", "U", "V", "W", "X", "Y", "Z", "[", "\\", "]", "^", "_",
      "BACKTICK", "a", "b", "c", "d", "e", "f", "g", "h", "i", "j", "k", "l", "m", "n", "o",
      "p", "q", "r", "s", "t", "u", "v", "w", "x", "y", "z", "{", "|", "}", "~">>

\* The byte a character is stored as, and the character a byte reads back as
Ord(c) ==
    CASE c = "\t" -> 9
      [] c = "\n" -> 10
      [] c = "\r" -> 13
      [] OTHER -> 31 + (CHOOSE k \in 1..Len(Printable) : Printable[k] = c)

Chr(b) ==
    CASE b = 9 -> "\t"
      [] b = 10 -> "\n"
      [] b = 13 -> "\r"
      [] b \in 32..126 -> Printable[b - 31]
      [] OTHER -> NUL

DigitVal(c) == Ord(c) - 48

-----------------------------------------------------------------------------
(* Lexer *)

Token(kind, text, pos) == [kind |-> kind, text |-> text, pos |-> pos]

keywords ==
    [w \in { <<"t","y","p","e">>, <<"f","u","n","c">>, <<"i","f">>, <<"t","h","e","n">>,
             <<"e","l","s","e">>, <<"f","i">>, <<"c","a","s","e">>, <<"o","f">>,
             <<"o","t","h","e","r","s">>, <<"f","o">>, <<"i","n","t">>,
             <<"b","o","o","l">>, <<"c","h","a","r">>, <<"s","t","r","i","n","g">> }
       |-> CASE w = <<"t","y","p","e">> -> "KW_type"
             [] w = <<"f","u","n","c">> -> "KW_func"
             [] w = <<"i","f">> -> "KW_if"
             [] w = <<"t","h","e","n">> -> "KW_then"
             [] w = <<"e","l","s","e">> -> "KW_else"
             [] w = <<"f","i">> -> "KW_fi"
             [] w = <<"c","a","s","e">> -> "KW_case"
             [] w = <<"o","f">> -> "KW_of"
             [] w = <<"o","t","h","e","r","s">> -> "KW_others"
             [] w = <<"f","o">> -> "KW_fo"
             [] w = <<"i","n","t">> -> "KW_int"
             [] w = <<"b","o","o","l">> -> "KW_bool"
             [] w = <<"c","h","a","r">> -> "KW_char"
             [] w = <<"s","t","r","i","n","g">> -> "KW_string"]

\* Let(v, K): K applied to v, which gives the value v a name
Let(v, K(_)) == K(v)

\* A Lexer over text s is its cursor and line counter: [i, line]
Lexer(s) == [i |-> 0, line |-> 1]

peek(s, i) == IF i < Len(s) THEN s[i + 1] ELSE NUL

\* get(): the character read and the cursor after it
get(s, i) == IF i < Len(s) THEN [c |-> s[i + 1], i |-> i + 1] ELSE [c |-> NUL, i |-> i]

\* the `while (i < n && src[i] != '\n') ++i` of a line comment
RECURSIVE skip_line(_, _)
skip_line(s, i) == IF i < Len(s) /\ s[i + 1] # "\n" THEN skip_line(s, i + 1) ELSE i

RECURSIVE skip_ws(_, _)
skip_ws(s, lx) ==
    IF lx.i < Len(s)
    THEN IF s[lx.i + 1] \in {" ", "\t", "\r"}
         THEN skip_ws(s, [lx EXCEPT !.i = @ + 1])
         ELSE IF s[lx.i + 1] = "\n"
         THEN skip_ws(s, [i |-> lx.i + 1, line |-> lx.line + 1])
         ELSE IF s[lx.i + 1] = "/" /\ lx.i + 1 < Len(s) /\ s[lx.i + 2] = "/"
         THEN skip_ws(s, [lx EXCEPT !.i = skip_line(s, lx.i + 2)])
         ELSE lx
    ELSE lx

\* `while (isalnum(peek()) || peek() == '_') s.push_back(get())`: the cursor after it
RECURSIVE scan_ident(_, _)
scan_ident(s, i) ==
    IF isalnum(peek(s, i)) \/ peek(s, i) = "_" THEN scan_ident(s, i + 1) ELSE i

\* `while (isdigit(peek())) s.push_back(get())`: the cursor after it
RECURSIVE scan_digits(_, _)
scan_digits(s, i) == IF isdigit(peek(s, i)) THEN scan_digits(s, i + 1) ELSE i

\* The string-literal loop: [out, i] after `while (peek() != '\0' && peek() != '"')`
RECURSIVE scan_string(_, _, _)
scan_string(s, i, out) ==
    IF peek(s, i) # NUL /\ peek(s, i) # "\""
    THEN IF peek(s, i) = "\\"
         THEN IF peek(s, i + 1) # NUL
              THEN scan_string(s, i + 2, out \o <<"\\", peek(s, i + 1)>>)
              ELSE scan_string(s, i + 1, Append(out, "\\"))
         ELSE scan_string(s, i + 1, Append(out, peek(s, i)))
    ELSE [out |-> out, i |-> i]

\* `if (peek() == QUOTE) get()` after the body [out, i] of a literal
close_quote(s, r, quote) == IF peek(s, r.i) = quote THEN [r EXCEPT !.i = get(s, r.i).i] ELSE r

\* The character-literal case: [out, i]
scan_char(s, i) ==
    close_quote(s,
        IF peek(s, i) = "\\"
        THEN [out |-> <<"\\", get(s, i + 1).c>>, i |-> get(s, i + 1).i]
        ELSE IF peek(s, i) # "'"
        THEN [out |-> <<get(s, i).c>>, i |-> get(s, i).i]
        ELSE [out |-> <<>>, i |-> i],
        "'")

\* The exponent of a number, entered at the cursor i of the `e`: the cursor after it
scan_exponent(s, i) ==
    scan_digits(s, IF peek(s, i + 1) = "+" \/ peek(s, i + 1) = "-" THEN i + 2 ELSE i + 1)

\* `if (peek() == '.') { isFloat = true; ... }` at the cursor i: [isFloat, i]
scan_point(s, i) ==
    IF peek(s, i) = "."
    THEN [isFloat |-> TRUE, i |-> scan_digits(s, i + 1)]
    ELSE [isFloat |-> FALSE, i |-> i]

\* `if (peek() == 'e' || peek() == 'E') { isFloat = true; ... }` after r: [isFloat, i]
scan_exp(s, r) ==
    IF peek(s, r.i) = "e" \/ peek(s, r.i) = "E"
    THEN [isFloat |-> TRUE, i |-> scan_exponent(s, r.i)]
    ELSE r

\* The kind a number token has
number_kind(r) ==
    [kind |-> IF r.isFloat THEN "FloatLiteral" ELSE "NumberLiteral", i |-> r.i]

\* The number case, entered with the first character consumed: [kind, i]
scan_number(s, i) == number_kind(scan_exp(s, scan_point(s, scan_digits(s, i))))

SubStr(s, from, to) == [k \in 1..(to - from) |-> s[from + k]]

\* The kind of the token a word is
word_kind(w) ==
    IF w \in DOMAIN keywords THEN keywords[w]
    ELSE IF w = <<"t","r","u","e">> \/ w = <<"f","a","l","s","e">> THEN "BoolLiteral"
    ELSE "Ident"

\* The token that starts at pos0 and ends before the cursor j, and the lexer after it
Lexed(s, lx, kind, text, j) ==
    [tok |-> Token(kind, text, lx.i), lx |-> [lx EXCEPT !.i = j]]

\* Lexer::next() after skip_ws(), with the lexer lx at pos0
Lexer_scan(s, lx, c) ==
    LET One(kind) == Lexed(s, lx, kind, <<c>>, lx.i + 1)
        Two(second, kind2, kind1) ==
            IF peek(s, lx.i + 1) = second
            THEN Lexed(s, lx, kind2, <<c, second>>, lx.i + 2)
            ELSE One(kind1)
        Body(kind, r) == Lexed(s, lx, kind, r.out, r.i)
        Span(kind, j) == Lexed(s, lx, kind, SubStr(s, lx.i, j), j)
    IN  CASE c = "(" -> One("LParen")
          [] c = ")" -> One("RParen")
          [] c = "{" -> One("LBrace")
          [] c = "}" -> One("RBrace")
          [] c = "<" -> One("Less")
          [] c = ">" -> One("Greater")
          [] c = "," -> One("Comma")
          [] c = ":" -> One("Colon")
          [] c = ";" -> One("Semicolon")
          [] c = "." -> One("Dot")
          [] c = "+" -> One("Plus")
          [] c = "-" -> Two(">", "Arrow", "Minus")
          [] c = "*" -> One("Star")
          [] c = "/" -> One("Slash")
          [] c = "%" -> One("Percent")
          [] c = "&" -> One("And")
          [] c = "|" -> One("Or")
          [] c = "=" -> Two("=", "EqEq", "Eq")
          [] c = "!" -> Two("=", "NotEq", "Unknown")
          [] c = "'" -> Body("CharLiteral", scan_char(s, lx.i + 1))
          [] c = "\"" ->
                Body("StringLiteral", close_quote(s, scan_string(s, lx.i + 1, <<>>), "\""))
          [] OTHER ->
                IF isalpha(c) \/ c = "_"
                THEN Let(scan_ident(s, lx.i + 1),
                         LAMBDA j : Lexed(s, lx, word_kind(SubStr(s, lx.i, j)),
                                          SubStr(s, lx.i, j), j))
                ELSE IF isdigit(c) \/ (c = "." /\ isdigit(peek(s, lx.i + 1)))
                THEN Let(scan_number(s, lx.i + 1),
                         LAMBDA r : Lexed(s, lx, r.kind, SubStr(s, lx.i, r.i), r.i))
                ELSE One("Unknown")

\* A next() that starts over once the input is exhausted, where Lexer::next()
\* leaves the cursor at the end
Lexer_at_rewound(s, lx) ==
    IF lx.i >= Len(s) THEN [tok |-> Token("End", <<>>, lx.i), lx |-> [lx EXCEPT !.i = 0]]
    ELSE Lexer_scan(s, lx, s[lx.i + 1])

\* Lexer::next(): [tok, lx], the token returned and the lexer after the call
Lexer_at(s, lx) ==
    IF lx.i >= Len(s) THEN [tok |-> Token("End", <<>>, lx.i), lx |-> lx]
    ELSE Lexer_scan(s, lx, s[lx.i + 1])
Lexer_next(s, lx0) == Lexer_at(s, skip_ws(s, lx0))

-----------------------------------------------------------------------------
(* Numbers: long long and double *)

RECURSIVE Gcd(_, _)
Gcd(a, b) == IF b = 0 THEN a ELSE Gcd(b, a % b)

Abs(x) == IF x < 0 THEN -x ELSE x

RECURSIVE Pow(_, _)
Pow(b, e) == IF e = 0 THEN 1 ELSE b * Pow(b, e - 1)

\* A double is the rational n/d in lowest terms with d > 0; zero is 0/1 and the
\* negative zero 0/-1; d = 0 stands for the values that are no rational: n = 1
\* is +inf, n = -1 is -inf, n = 0 is NaN.
Dbl(n, d) ==
    IF d = 0 THEN [n |-> IF n > 0 THEN 1 ELSE IF n < 0 THEN -1 ELSE 0, d |-> 0]
    ELSE LET g == Gcd(Abs(n), Abs(d))
             sg == IF d < 0 THEN -1 ELSE 1
         IN  [n |-> sg * (n \div g), d |-> sg * (d \div g)]

DblZero == Dbl(0, 1)
IntToDbl(x) == Dbl(x, 1)
DblIsNaN(x) == x.d = 0 /\ x.n = 0
DblIsZero(x) == x.n = 0 /\ x.d # 0

\* The sign bit of a double that is not NaN, as -1 or 1, and zero of that sign
DblSign(x) == IF x.n < 0 \/ (x.n = 0 /\ x.d < 0) THEN -1 ELSE 1
SignedZero(sg) == [n |-> 0, d |-> sg]

DblNeg(x) == IF DblIsZero(x) THEN SignedZero(-x.d) ELSE [n |-> -x.n, d |-> x.d]
DblAdd(x, y) ==
    IF x.d = 0 \/ y.d = 0
    THEN IF DblIsNaN(x) \/ DblIsNaN(y) THEN Dbl(0, 0)
         ELSE IF x.d = 0 /\ y.d = 0 THEN (IF x.n = y.n THEN x ELSE Dbl(0, 0))
         ELSE IF x.d = 0 THEN x ELSE y
    ELSE IF DblIsZero(x) /\ DblIsZero(y)
    THEN SignedZero(IF DblSign(x) = -1 /\ DblSign(y) = -1 THEN -1 ELSE 1)
    ELSE Dbl(x.n * Abs(y.d) + y.n * Abs(x.d), Abs(x.d) * Abs(y.d))
DblSub(x, y) == DblAdd(x, DblNeg(y))
DblMul(x, y) ==
    IF DblIsNaN(x) \/ DblIsNaN(y) THEN Dbl(0, 0)
    ELSE IF x.d = 0 \/ y.d = 0
    THEN IF DblIsZero(x) \/ DblIsZero(y) THEN Dbl(0, 0)
         ELSE Dbl(DblSign(x) * DblSign(y), 0)
    ELSE IF x.n = 0 \/ y.n = 0 THEN SignedZero(DblSign(x) * DblSign(y))
    ELSE Dbl(x.n * y.n, x.d * y.d)
DblDiv(x, y) ==
    IF DblIsNaN(x) \/ DblIsNaN(y) THEN Dbl(0, 0)
    ELSE IF y.d = 0
    THEN (IF x.d = 0 THEN Dbl(0, 0) ELSE SignedZero(DblSign(x) * DblSign(y)))
    ELSE IF y.n = 0
    THEN (IF x.n = 0 THEN Dbl(0, 0) ELSE Dbl(DblSign(x) * DblSign(y), 0))
    ELSE IF x.d = 0 THEN Dbl(DblSign(x) * DblSign(y), 0)
    ELSE IF x.n = 0 THEN SignedZero(DblSign(x) * DblSign(y))
    ELSE Dbl(x.n * y.d, x.d * y.n)

\* x < y and x == y on doubles: every comparison with a NaN is false, and the
\* two zeros are equal
DblLt(x, y) ==
    IF DblIsNaN(x) \/ DblIsNaN(y) THEN FALSE
    ELSE IF x.d = 0 /\ y.d = 0 THEN x.n < y.n
    ELSE IF x.d = 0 THEN x.n < 0
    ELSE IF y.d = 0 THEN y.n > 0
    ELSE x.n * Abs(y.d) < y.n * Abs(x.d)
DblEq(x, y) ==
    /\ ~DblIsNaN(x) /\ ~DblIsNaN(y)
    /\ (x = y \/ (DblIsZero(x) /\ DblIsZero(y)))

\* The value of a run of decimal digits
RECURSIVE DigitsVal(_)
DigitsVal(t) ==
    IF t = <<>> THEN 0 ELSE 10 * DigitsVal(SubSeq(t, 1, Len(t) - 1)) + DigitVal(t[Len(t)])

\* The length of the run of digits that t starts with from index k
RECURSIVE DigitRun(_, _)
DigitRun(t, k) == IF k <= Len(t) /\ isdigit(t[k]) THEN 1 + DigitRun(t, k + 1) ELSE 0

\* std::stoll on the text of a NumberLiteral token (digits only)
stoll(t) == DigitsVal(t)

\* The value of the run of digits that t has from index k
DigitsAt(t, k) == DigitsVal(SubSeq(t, k, k + DigitRun(t, k) - 1))

\* The exponent std::stod reads from index k0 + 1 of t: [neg, e].  It counts only
\* if it has a digit, and DigitsAt is 0 when it has none.
stod_exp(t, k0) ==
    IF k0 < Len(t) /\ t[k0 + 1] \in {"e", "E"}
    THEN IF k0 + 1 < Len(t) /\ t[k0 + 2] \in {"+", "-"}
         THEN [neg |-> t[k0 + 2] = "-", e |-> DigitsAt(t, k0 + 3)]
         ELSE [neg |-> FALSE, e |-> DigitsAt(t, k0 + 2)]
    ELSE [neg |-> FALSE, e |-> 0]

\* mant / 10^nf scaled by the exponent x
stod_scale(mant, nf, x) ==
    IF x.neg THEN Dbl(mant, Pow(10, nf) * Pow(10, x.e))
    ELSE Dbl(mant * Pow(10, x.e), Pow(10, nf))

\* t with ni integer digits and, when dot, a '.' and nf fraction digits
stod_parts(t, ni, dot, nf) ==
    stod_scale(DigitsVal(SubSeq(t, 1, ni)) * Pow(10, nf) + DigitsAt(t, ni + 2) * (IF dot THEN 1 ELSE 0),
               nf,
               stod_exp(t, ni + (IF dot THEN 1 + nf ELSE 0)))

stod_point(t, ni, dot) == stod_parts(t, ni, dot, IF dot THEN DigitRun(t, ni + 2) ELSE 0)

stod_digits(t, ni) == stod_point(t, ni, ni < Len(t) /\ t[ni + 1] = ".")

\* std::stod on the text of a FloatLiteral token: digits, then an optional '.'
\* and digits, then an optional exponent
stod(t) == stod_digits(t, DigitRun(t, 1))

-----------------------------------------------------------------------------
(* AST *)

LiteralExpr(kind, ival, fval, bval, sval) ==
    [tag |-> "Literal", kind |-> kind, ival |-> ival, fval |-> fval, bval |-> bval,
     sval |-> sval]
IdentExpr(name) == [tag |-> "Ident", name |-> name]
UnaryExpr(op, rhs) == [tag |-> "Unary", op |-> op, rhs |-> rhs]
BinaryExpr(op, lhs, rhs) == [tag |-> "Binary", op |-> op, lhs |-> lhs, rhs |-> rhs]
IfExpr(cond, thenBranch, elseBranch) ==
    [tag |-> "If", cond |-> cond, thenBranch |-> thenBranch, elseBranch |-> elseBranch]
CallExpr(callee, args) == [tag |-> "Call", callee |-> callee, args |-> args]
FuncDecl(name, params, retType, body) ==
    [name |-> name, params |-> params, retType |-> retType, body |-> body]

-----------------------------------------------------------------------------
(* Parser *)


\* A Parser is [lex, cur].  Every parse function returns [ok, val, p, err, diag]:
\* the value and the parser after it, or, when it threw, the exception's message,
\* the parser at the throw and what was printed to cerr before it.
Ok(p, v) == [ok |-> TRUE, val |-> v, p |-> p, err |-> "", diag |-> <<>>]
Throw(p, msg, diag) == [ok |-> FALSE, val |-> <<>>, p |-> p, err |-> msg, diag |-> diag]

\* Then(r, K): what follows a call that returned r and uses its result, K(r), or
\* the exception the call threw, which every caller propagates
Then(r, K(_)) == IF r.ok THEN K(r) ELSE r

\* The parser whose lexer has just returned r
Parser_at(r) == [lex |-> r.lx, cur |-> r.tok]

Parser(s) == Parser_at(Lexer_next(s, Lexer(s)))

Parser_next(s, p) == Parser_at(Lexer_next(s, p.lex))

match(s, p, k) ==
    IF p.cur.kind = k THEN [hit |-> TRUE, p |-> Parser_next(s, p)]
    ELSE [hit |-> FALSE, p |-> p]

expect(s, p, k) ==
    IF p.cur.kind # k
    THEN Throw(p, "unexpected token",
               <<[pos |-> p.cur.pos, expected |-> k, got |-> p.cur.text]>>)
    ELSE Ok(Parser_next(s, p), <<>>)

get_precedence(t) ==
    IF t.kind \in {"Star", "Slash", "Percent"} THEN 70
    ELSE IF t.kind \in {"Plus", "Minus"} THEN 60
    ELSE IF t.kind \in {"Less", "LessEq", "Greater", "GreaterEq"} THEN 50
    ELSE IF t.kind \in {"EqEq", "NotEq", "Eq"} THEN 40
    ELSE IF t.kind = "And" THEN 30
    ELSE IF t.kind = "Or" THEN 20
    ELSE IF t.text = <<"=", "=">> \/ t.text = <<"=">> THEN 40
    ELSE IF t.text \in { <<"<">>, <<">">>, <<"<", "=">>, <<">", "=">> } THEN 50
    ELSE -1

parse_type_expr(s, p) ==
    IF p.cur.kind = "KW_int" THEN Ok(Parser_next(s, p), <<"i","n","t">>)
    ELSE IF p.cur.kind = "KW_bool" THEN Ok(Parser_next(s, p), <<"b","o","o","l">>)
    ELSE IF p.cur.kind = "KW_char" THEN Ok(Parser_next(s, p), <<"c","h","a","r">>)
    ELSE IF p.cur.kind = "KW_string"
    THEN Ok(Parser_next(s, p), <<"s","t","r","i","n","g">>)
    ELSE IF p.cur.kind = "Ident" THEN Ok(Parser_next(s, p), p.cur.text)
    ELSE Throw(p, "type expression expected", <<>>)

RECURSIVE parse_expr(_, _)
RECURSIVE parse_primary(_, _)
RECURSIVE parse_args(_, _, _)
RECURSIVE parse_if(_, _)
RECURSIVE parse_unary(_, _)
RECURSIVE parse_binary_and_rhs(_, _, _, _)
RECURSIVE parse_binary_or(_, _)

\* `if (match(TokenKind::Comma)) continue; break;` of a list loop, with the
\* list so far and the loop as Again(p, list)
list_more(m, list, Again(_, _)) == IF m.hit THEN Again(m.p, list) ELSE Ok(m.p, list)

\* the argument loop of a call in parse_primary: `while (true) { args.push_back(...) }`
parse_args(s, p, args) ==
    Then(parse_expr(s, p), LAMBDA a :
    list_more(match(s, a.p, "Comma"), Append(args, a.val),
              LAMBDA q, l : parse_args(s, q, l)))

\* the arguments of a call, with the parser p after its '('
call_args(s, p) == IF p.cur.kind # "RParen" THEN parse_args(s, p, <<>>) ELSE Ok(p, <<>>)

\* parse_primary after `string id = cur.text; next();`, with the parser p1
parse_ident(s, id, p1) ==
    IF p1.cur.kind = "LParen"
    THEN Then(call_args(s, Parser_next(s, p1)), LAMBDA as :
         Then(expect(s, as.p, "RParen"), LAMBDA x :
         Ok(x.p, CallExpr(id, as.val))))
    ELSE Ok(p1, IdentExpr(id))

parse_primary(s, p) ==
    IF p.cur.kind = "NumberLiteral"
    THEN Ok(Parser_next(s, p), LiteralExpr("Int", stoll(p.cur.text), DblZero, FALSE, <<>>))
    ELSE IF p.cur.kind = "FloatLiteral"
    THEN Ok(Parser_next(s, p), LiteralExpr("Float", 0, stod(p.cur.text), FALSE, <<>>))
    ELSE IF p.cur.kind = "BoolLiteral"
    THEN Ok(Parser_next(s, p),
            LiteralExpr("Bool", 0, DblZero, p.cur.text = <<"t","r","u","e">>, <<>>))
    ELSE IF p.cur.kind = "StringLiteral"
    THEN Ok(Parser_next(s, p), LiteralExpr("String", 0, DblZero, FALSE, p.cur.text))
    ELSE IF p.cur.kind = "Ident"
    THEN parse_ident(s, p.cur.text, Parser_next(s, p))
    ELSE IF p.cur.kind = "LParen"
    THEN Then(parse_expr(s, Parser_next(s, p)), LAMBDA e :
         Then(expect(s, e.p, "RParen"), LAMBDA x :
         Ok(x.p, e.val)))
    ELSE IF p.cur.kind = "KW_if" THEN parse_if(s, p)
    ELSE Throw(p, "unexpected primary at parse", <<>>)

parse_if(s, p) ==
    Then(expect(s, p, "KW_if"), LAMBDA x0 :
    Then(parse_expr(s, x0.p), LAMBDA cond :
    Then(expect(s, cond.p, "KW_then"), LAMBDA x1 :
    Then(parse_expr(s, x1.p), LAMBDA thenB :
    Then(expect(s, thenB.p, "KW_else"), LAMBDA x2 :
    Then(parse_expr(s, x2.p), LAMBDA elseB :
    Then(expect(s, elseB.p, "KW_fi"), LAMBDA x3 :
    Ok(x3.p, IfExpr(cond.val, thenB.val, elseB.val)))))))))

parse_unary(s, p) ==
    IF p.cur.kind = "Minus"
    THEN Then(parse_unary(s, Parser_next(s, p)), LAMBDA r :
         Ok(r.p, UnaryExpr(<<"-">>, r.val)))
    ELSE IF p.cur.text = <<"!">>
    THEN Then(parse_unary(s, Parser_next(s, p)), LAMBDA r :
         Ok(r.p, UnaryExpr(<<"!">>, r.val)))
    ELSE parse_primary(s, p)

\* `if (prec < next_prec) rhs = parse_binary_and_rhs(rhs, prec + 1)` after
\* parse_unary() returned r0
parse_rhs(s, prec, r0) ==
    IF prec < get_precedence(r0.p.cur)
    THEN parse_binary_and_rhs(s, r0.p, r0.val, prec + 1)
    ELSE r0

parse_binary_and_rhs(s, p, lhs, min_prec) ==
    IF get_precedence(p.cur) < min_prec THEN Ok(p, lhs)
    ELSE Then(parse_unary(s, Parser_next(s, p)), LAMBDA r0 :
         Then(parse_rhs(s, get_precedence(p.cur), r0), LAMBDA rhs :
         parse_binary_and_rhs(s, rhs.p, BinaryExpr(p.cur.text, lhs, rhs.val), min_prec)))

parse_binary_or(s, p) ==
    Then(parse_unary(s, p), LAMBDA lhs : parse_binary_and_rhs(s, lhs.p, lhs.val, 0))

parse_expr(s, p) == parse_binary_or(s, p)

\* the parameter loop of parse_func: `while (true) { IDENT ':' type-expr }`
RECURSIVE parse_params(_, _, _)
parse_params(s, p, params) ==
    IF p.cur.kind # "Ident" THEN Throw(p, "param name expected", <<>>)
    ELSE Then(expect(s, Parser_next(s, p), "Colon"), LAMBDA x :
         Then(parse_type_expr(s, x.p), LAMBDA t :
         list_more(match(s, t.p, "Comma"),
                   Append(params, [name |-> p.cur.text, type |-> t.val]),
                   LAMBDA q, l : parse_params(s, q, l))))

\* `if (match(TokenKind::LParen)) { ... expect(TokenKind::RParen); }` of
\* parse_func, with the result m of the match
parse_domain(s, m) ==
    IF m.hit
    THEN Then(IF m.p.cur.kind # "RParen" THEN parse_params(s, m.p, <<>>) ELSE Ok(m.p, <<>>),
              LAMBDA l :
         Then(expect(s, l.p, "RParen"), LAMBDA x :
         Ok(x.p, l.val)))
    ELSE Ok(m.p, <<>>)

parse_func(s, p) ==
    Then(expect(s, p, "KW_func"), LAMBDA x0 :
    IF x0.p.cur.kind # "Ident" THEN Throw(x0.p, "func name expected", <<>>) ELSE
    Then(parse_domain(s, match(s, Parser_next(s, x0.p), "LParen")), LAMBDA ps :
    Then(expect(s, ps.p, "Colon"), LAMBDA x1 :
    Then(parse_type_expr(s, x1.p), LAMBDA rt :
    Then(expect(s, rt.p, "EqEq"), LAMBDA x2 :
    Then(parse_expr(s, x2.p), LAMBDA body :
    Ok(body.p, FuncDecl(x0.p.cur.text, ps.val, rt.val, body.val))))))))

\* the loop of parse_program: `while (cur.kind != TokenKind::End)`
RECURSIVE parse_program_loop(_, _, _)
parse_program_loop(s, p, funcs) ==
    IF p.cur.kind = "End" THEN Ok(p, funcs)
    ELSE IF p.cur.kind = "KW_func"
    THEN Then(parse_func(s, p), LAMBDA f :
         parse_program_loop(s, f.p, Append(funcs, f.val)))
    ELSE Then(parse_expr(s, p), LAMBDA b :
         parse_program_loop(s, b.p,
             Append(funcs, FuncDecl(<<"m","a","i","n">>, <<>>, <<"i","n","t">>, b.val))))

parse_program(s) == parse_program_loop(s, Parser(s), <<>>)


-----------------------------------------------------------------------------
(* Bytecode *)

HALT == 0
PUSH_INT == 1
PUSH_FLOAT == 2
PUSH_BOOL == 3
PUSH_STRING == 4
LOAD_LOCAL == 5
STORE_LOCAL == 6
ADD == 7
SUB == 8
MUL == 9
DIV == 10
MOD == 11
NEG == 12
NOT == 13
EQ_OP == 14
NE_OP == 15
LT_OP == 16
LE_OP == 17
GT_OP == 18
GE_OP == 19
AND_OP == 20
OR_OP == 21
CALL == 22
RET == 23
POP == 24

Value(kind, ival, fval, bval, sval) ==
    [kind |-> kind, ival |-> ival, fval |-> fval, bval |-> bval, sval |-> sval]
NoValue == Value("None", 0, DblZero, FALSE, <<>>)
make_int(x) == [NoValue EXCEPT !.kind = "Int", !.ival = x]
make_float(f) == [NoValue EXCEPT !.kind = "Float", !.fval = f]
make_bool(b) == [NoValue EXCEPT !.kind = "Bool", !.bval = b]
make_string(t) == [NoValue EXCEPT !.kind = "String", !.sval = t]

FunctionBytecode(code, nlocals) == [code |-> code, consts |-> <<>>, nlocals |-> nlocals]

\* Byte k (0 = lowest) of the two's-complement representation of x, for x within
\* 32 bits: the bytes above the fourth repeat the sign
ByteOf(x, k) ==
    IF x >= 0
    THEN (IF k >= 4 THEN 0 ELSE (x \div Pow(256, k)) % 256)
    ELSE 255 - (IF k >= 4 THEN 0 ELSE ((-x - 1) \div Pow(256, k)) % 256)

\* The value of the w bytes at code[at+1..at+w], little-endian and unsigned
RECURSIVE LEValue(_, _, _)
LEValue(code, at, w) ==
    IF w = 0 THEN 0
    ELSE LET b == code[at + w] IN
         (IF b = 0 THEN 0 ELSE b * Pow(256, w - 1)) + LEValue(code, at, w - 1)

\* memcpy of 8 bytes into a long long
read_i64(code, at) ==
    IF code[at + 8] >= 128
    THEN -LEValue([k \in 1..8 |-> 255 - code[at + k]], 0, 8) - 1
    ELSE LEValue(code, at, 8)

\* memcpy of 4 bytes into a uint32_t
read_u32(code, at) == LEValue(code, at, 4)

\* floor(log2(a)) for a >= 1
RECURSIVE Log2(_)
Log2(a) == IF a <= 1 THEN 0 ELSE 1 + Log2(a \div 2)

\* The eight bits of the mantissa m0 * 2^(52-h) of a double that lie sh bits
\* below the lowest bit of m0
MantByte(m0, sh) ==
    IF sh >= 8 THEN 0
    ELSE IF sh >= 0 THEN ((m0 % 256) * Pow(2, sh)) % 256
    ELSE (m0 \div Pow(2, -sh)) % 256

\* The bytes of the double of sign neg, biased exponent e and mantissa m0 * 2^sh
DblLayout(neg, e, m0, sh) ==
    <<MantByte(m0, sh), MantByte(m0, sh - 8), MantByte(m0, sh - 16), MantByte(m0, sh - 24),
      MantByte(m0, sh - 32), MantByte(m0, sh - 40),
      (e % 16) * 16 + (MantByte(m0, sh - 48) % 16),
      (IF neg THEN 128 ELSE 0) + (e \div 16)>>

\* The bytes of +-a / 2^ld, where a has its highest bit at h
DblNormal(neg, a, h, ld) == DblLayout(neg, h - ld + 1023, a - Pow(2, h), 52 - h)

\* The IEEE-754 binary64 bytes of a double, lowest first.  The finite values the
\* model meets are dyadic rationals with a numerator below 2^24, which a double
\* holds exactly.
DblBytes(x) ==
    IF x.d = 0
    THEN <<0, 0, 0, 0, 0, 0, IF x.n = 0 THEN 248 ELSE 240,
           IF x.n < 0 THEN 255 ELSE 127>>
    ELSE IF x.n = 0 THEN <<0, 0, 0, 0, 0, 0, 0, IF x.d < 0 THEN 128 ELSE 0>>
    ELSE DblNormal(x.n < 0, Abs(x.n), Log2(Abs(x.n)), Log2(x.d))

\* The number of trailing zero bits of v > 0
RECURSIVE Tz(_)
Tz(v) == IF v % 2 = 0 THEN 1 + Tz(v \div 2) ELSE 0

\* odd * 2^x
DblScale(odd, x) == IF x >= 0 THEN Dbl(odd * Pow(2, x), 1) ELSE Dbl(odd, Pow(2, -x))

\* The magnitude of the double whose top 29 mantissa bits, the hidden one
\* included, are full, with t trailing zeros, and whose biased exponent is e
DblMagnitude(full, t, e) == DblScale(full \div Pow(2, t), t + e - 1023 - 28)

\* The double of sign neg, biased exponent e and top mantissa bits m28
DblOfBits(neg, e, m28) ==
    IF e = 2047 THEN (IF m28 # 0 THEN Dbl(0, 0) ELSE Dbl(IF neg THEN -1 ELSE 1, 0))
    ELSE IF e = 0 /\ m28 = 0 THEN SignedZero(IF neg THEN -1 ELSE 1)
    ELSE IF neg THEN DblNeg(DblMagnitude(268435456 + m28, Tz(268435456 + m28), e))
    ELSE DblMagnitude(268435456 + m28, Tz(268435456 + m28), e)

\* memcpy of 8 bytes into a double
read_double(code, at) ==
    DblOfBits(code[at + 8] >= 128,
              (code[at + 8] % 128) * 16 + (code[at + 7] \div 16),
              (code[at + 7] % 16) * 16777216 + code[at + 6] * 65536 + code[at + 5] * 256
                  + code[at + 4])

-----------------------------------------------------------------------------
(* Compiler *)

emit_u8(code, x) == Append(code, x)
emit_u32(code, x) == code \o [k \in 1..4 |-> ByteOf(x, k - 1)]
emit_u64(code, x) == code \o [k \in 1..8 |-> ByteOf(x, k - 1)]
emit_double(code, d) == code \o DblBytes(d)
emit_string(code, t) == emit_u32(code, Len(t)) \o [k \in 1..Len(t) |-> Ord(t[k])]

\* The opcode compile_expr emits for a binary operator, or -1 where it throws
BinaryOpCode(op) ==
    CASE op = <<"+">> -> ADD
      [] op = <<"-">> -> SUB
      [] op = <<"*">> -> MUL
      [] op = <<"/">> -> DIV
      [] op = <<"%">> -> MOD
      [] op = <<"=", "=">> \/ op = <<"=">> -> EQ_OP
      [] op = <<"!", "=">> -> NE_OP
      [] op = <<"<">> -> LT_OP
      [] op = <<">">> -> GT_OP
      [] op = <<"<", "=">> -> LE_OP
      [] op = <<">", "=">> -> GE_OP
      [] op = <<"&">> -> AND_OP
      [] op = <<"|">> -> OR_OP
      [] OTHER -> -1

\* compile_expr(e, bc): [ok, code, err], the code of bc after it or the throw
RECURSIVE compile_expr(_, _)
RECURSIVE compile_args(_, _, _)

Compiled(code) == [ok |-> TRUE, code |-> code, err |-> ""]

\* compile_args as a loop that compiles the first argument only
compile_first_arg(args, k, code) ==
    IF k > Len(args) \/ k > 1 THEN Compiled(code)
    ELSE Then(compile_expr(args[k], code), LAMBDA a : compile_args(args, k + 1, a.code))

compile_args(args, k, code) ==
    IF k > Len(args) THEN Compiled(code)
    ELSE Then(compile_expr(args[k], code), LAMBDA a : compile_args(args, k + 1, a.code))

compile_expr(e, code) ==
    CASE e.tag = "Literal" ->
            Compiled(CASE e.kind = "Int" -> emit_u64(emit_u8(code, PUSH_INT), e.ival)
                       [] e.kind = "Float" -> emit_double(emit_u8(code, PUSH_FLOAT), e.fval)
                       [] e.kind = "Bool" ->
                             emit_u8(emit_u8(code, PUSH_BOOL), IF e.bval THEN 1 ELSE 0)
                       [] e.kind = "String" -> emit_string(emit_u8(code, PUSH_STRING), e.sval)
                       [] OTHER -> code)
      [] e.tag = "Ident" -> Compiled(emit_u64(emit_u8(code, PUSH_INT), 0))
      [] e.tag = "Unary" ->
            Then(compile_expr(e.rhs, code), LAMBDA r :
            Compiled(IF e.op = <<"-">> THEN emit_u8(r.code, NEG)
                     ELSE IF e.op = <<"!">> THEN emit_u8(r.code, NOT)
                     ELSE r.code))
      [] e.tag = "Binary" ->
            Then(compile_expr(e.lhs, code), LAMBDA l :
            Then(compile_expr(e.rhs, l.code), LAMBDA r :
            IF BinaryOpCode(e.op) = -1
            THEN [ok |-> FALSE, code |-> r.code, err |-> "unimplemented binary op"]
            ELSE Compiled(emit_u8(r.code, BinaryOpCode(e.op)))))
      [] e.tag = "If" ->
            Then(compile_expr(e.cond, code), LAMBDA c :
            Then(compile_expr(e.thenBranch, c.code), LAMBDA t :
            Then(compile_expr(e.elseBranch, t.code), LAMBDA el :
            Compiled(emit_u8(el.code, POP)))))
      [] e.tag = "Call" ->
            Then(compile_args(e.args, 1, code), LAMBDA a :
            Compiled(emit_u32(emit_string(emit_u8(a.code, CALL), e.callee), Len(e.args))))
      [] OTHER -> [ok |-> FALSE, code |-> code, err |-> "unsupported expr in compiler"]

Max(a, b) == IF a >= b THEN a ELSE b

\* The functions with fns[name] = bc
Assign(fns, name, bc) ==
    [n \in DOMAIN fns \cup {name} |-> IF n = name THEN bc ELSE fns[n]]

\* Compiler::compile: [ok, functions, err], the body of each function and then
\* RET; a later function of the same name replaces the earlier one
RECURSIVE compile_loop(_, _, _)
compile_loop(fs, k, fns) ==
    IF k > Len(fs) THEN [ok |-> TRUE, functions |-> fns, err |-> ""]
    ELSE Let(compile_expr(fs[k].body, <<>>), LAMBDA r :
         IF r.ok
         THEN compile_loop(fs, k + 1,
                  Assign(fns, fs[k].name,
                         FunctionBytecode(emit_u8(r.code, RET),
                                          Max(1, Len(fs[k].params) + 4))))
         ELSE [ok |-> FALSE, functions |-> fns, err |-> r.err])

NoFunctions == [n \in {} |-> FunctionBytecode(<<>>, 0)]

compile(p) == compile_loop(p, 1, NoFunctions)


-----------------------------------------------------------------------------
(* VM *)

Frame(fns, name) ==
    [fn |-> name, ip |-> 0, locals |-> [k \in 1..fns[name].nlocals |-> NoValue]]

\* TruncDiv as a division that rounds toward minus infinity
FloorDiv(a, b) == IF b > 0 THEN a \div b ELSE (-a) \div (-b)

\* a.ival / b.ival and a.ival % b.ival of C++, for b # 0
TruncDiv(a, b) ==
    LET q == Abs(a) \div Abs(b) IN
    IF (a < 0) = (b < 0) THEN q ELSE -q
TruncMod(a, b) == a - b * TruncDiv(a, b)

\* AsDouble as a read of fval whatever the kind of the value
AsDoubleUnwidened(v) == v.fval

\* (a.kind == Float ? a.fval : (double)a.ival)
AsDouble(v) == IF v.kind = "Float" THEN v.fval ELSE IntToDbl(v.ival)

BothInt(a, b) == a.kind = "Int" /\ b.kind = "Int"

\* The result of a comparison opcode on two long longs, and on two doubles
CompareInt(op, x, y) ==
    CASE op = EQ_OP -> x = y
      [] op = NE_OP -> x # y
      [] op = LT_OP -> x < y
      [] op = LE_OP -> x <= y
      [] op = GT_OP -> x > y
      [] op = GE_OP -> x >= y
CompareDbl(op, x, y) ==
    CASE op = EQ_OP -> DblEq(x, y)
      [] op = NE_OP -> ~DblEq(x, y)
      [] op = LT_OP -> DblLt(x, y)
      [] op = LE_OP -> DblLt(x, y) \/ DblEq(x, y)
      [] op = GT_OP -> DblLt(y, x)
      [] op = GE_OP -> DblLt(y, x) \/ DblEq(x, y)

\* What one instruction does once its operands are popped: [v] pushes v,
\* [throw] is the runtime_error thrown, [undef] is undefined behaviour.
Push(v) == [do |-> "push", v |-> v]
Fault(msg) == [do |-> "throw", msg |-> msg]
Undefined(why) == [do |-> "undef", msg |-> why]

ExecBinary(op, a, b) ==
    CASE op = ADD ->
            IF BothInt(a, b) THEN Push(make_int(a.ival + b.ival))
            ELSE IF a.kind = "Float" \/ b.kind = "Float"
            THEN Push(make_float(DblAdd(AsDouble(a), AsDouble(b))))
            ELSE IF a.kind = "String" /\ b.kind = "String"
            THEN Push(make_string(a.sval \o b.sval))
            ELSE Fault("type error in ADD")
      [] op = SUB ->
            IF BothInt(a, b) THEN Push(make_int(a.ival - b.ival))
            ELSE Push(make_float(DblSub(AsDouble(a), AsDouble(b))))
      [] op = MUL ->
            IF BothInt(a, b) THEN Push(make_int(a.ival * b.ival))
            ELSE Push(make_float(DblMul(AsDouble(a), AsDouble(b))))
      [] op = DIV ->
            IF b.kind = "Int" /\ b.ival = 0 THEN Fault("division by zero")
            ELSE IF BothInt(a, b) THEN Push(make_int(TruncDiv(a.ival, b.ival)))
            ELSE Push(make_float(DblDiv(AsDouble(a), AsDouble(b))))
      [] op = MOD ->
            IF BothInt(a, b)
            THEN IF b.ival = 0 THEN Undefined("integer remainder by zero")
                 ELSE Push(make_int(TruncMod(a.ival, b.ival)))
            ELSE Fault("mod only on ints")
      [] op \in {EQ_OP, NE_OP, LT_OP, LE_OP, GT_OP, GE_OP} ->
            IF BothInt(a, b) THEN Push(make_bool(CompareInt(op, a.ival, b.ival)))
            ELSE Push(make_bool(CompareDbl(op, AsDouble(a), AsDouble(b))))
      [] op = AND_OP -> Push(make_bool(a.bval /\ b.bval))
      [] op = OR_OP -> Push(make_bool(a.bval \/ b.bval))

ExecUnary(op, a) ==
    CASE op = NEG ->
            IF a.kind = "Int" THEN Push(make_int(-a.ival))
            ELSE Push(make_float(DblNeg(a.fval)))
      [] op = NOT ->
            IF a.kind = "Bool" THEN Push(make_bool(~a.bval))
            ELSE Fault("! expects bool")

BinaryOps == {ADD, SUB, MUL, DIV, MOD, EQ_OP, NE_OP, LT_OP, LE_OP, GT_OP, GE_OP,
              AND_OP, OR_OP}
UnaryOps == {NEG, NOT}

\* The number of operands an opcode pops with pop(), CALL aside
Arity(op) ==
    IF op \in BinaryOps THEN 2
    ELSE IF op \in UnaryOps \/ op = POP \/ op = STORE_LOCAL THEN 1
    ELSE 0

Top(q) == q[Len(q)]
Front(q, k) == SubSeq(q, 1, Len(q) - k)

\* The VM after one step: [stack, frames, pc, what]
Running(st, frs) ==
    [stack |-> st, frames |-> frs, pc |-> IF frs = <<>> THEN "returned" ELSE "loop",
     what |-> ""]
Thrown(st, frs, msg) == [stack |-> st, frames |-> frs, pc |-> "thrown", what |-> msg]
Undef(st, frs, why) == [stack |-> st, frames |-> frs, pc |-> "undefined", what |-> why]

\* PopFrame as a return that unwinds to the first frame
PopFrameToFirst(st, frs) == Running(st, Front(frs, IF Len(frs) > 1 THEN Len(frs) - 1 ELSE 1))

\* PopFrame as a return that takes the top of the operand stack with it
PopFrameAndValue(st, frs) == Running(Front(st, IF st = <<>> THEN 0 ELSE 1), Front(frs, 1))

\* frames.pop_back() of RET and of the implicit return, and the loop condition
PopFrame(st, frs) == Running(st, Front(frs, 1))

\* The frames with the top frame's cursor set to ip
SetIp(frs, ip) == [frs EXCEPT ![Len(frs)].ip = ip]

\* Apply what an instruction does to the stack st left after its pops
Finish(r, st, frs) ==
    CASE r.do = "push" -> Running(Append(st, r.v), frs)
      [] r.do = "throw" -> Thrown(st, frs, r.msg)
      [] r.do = "undef" -> Undef(st, frs, r.msg)

\* WithArgs as a move that stores the arguments in the order they are popped
WithArgsAsPopped(nfr, st, nargs) ==
    [nfr EXCEPT !.locals = [k \in 1..Len(nfr.locals) |->
                               IF k <= nargs THEN st[Len(st) - k + 1]
                               ELSE nfr.locals[k]]]

\* The new frame of a CALL once `argsv[k] = pop()` and `nfr.locals[k] = argsv[k]`
\* have moved the nargs topmost values of st into it
WithArgs(nfr, st, nargs) ==
    [nfr EXCEPT !.locals = [k \in 1..Len(nfr.locals) |->
                               IF k <= nargs THEN st[Len(st) - nargs + k]
                               ELSE nfr.locals[k]]]

\* case OpCode::CALL from `frames.emplace_back(fn)` on, with the frame nfr
CallFrame(st, frs, nfr, nargs) ==
    IF Len(nfr.locals) < nargs
    THEN Thrown(st, Append(frs, nfr), "callee expects more locals than provided")
    ELSE IF Len(st) < nargs
    THEN Undef(st, Append(frs, nfr), "pop() on an empty stack")
    ELSE Running(Front(st, nargs), Append(frs, WithArgs(nfr, st, nargs)))

\* CallNamed as a call that takes an undeclared function to return no value
CallNamedLenient(fns, st, frs, fname, nargs) ==
    IF fname \notin DOMAIN fns THEN Running(Append(Front(st, nargs), NoValue), frs)
    ELSE CallFrame(st, frs, Frame(fns, fname), nargs)

\* case OpCode::CALL with its immediates decoded and the cursor past them
CallNamed(fns, st, frs, fname, nargs) ==
    IF fname \notin DOMAIN fns THEN Thrown(st, frs, "call to unknown function")
    ELSE CallFrame(st, frs, Frame(fns, fname), nargs)

\* The len characters at code[at+1..at+len]
read_string(code, at, len) == [k \in 1..len |-> Chr(code[at + k])]

\* CallDecoded as a CALL that leaves the cursor on the argument count
CallDecodedToArgc(fns, st, frs, code, ip, name_len) ==
    CallNamed(fns, st, SetIp(frs, ip + 4 + name_len),
              read_string(code, ip + 4, name_len), read_u32(code, ip + 4 + name_len))

\* case OpCode::CALL with name_len read
CallDecoded(fns, st, frs, code, ip, name_len) ==
    CallNamed(fns, st, SetIp(frs, ip + 4 + name_len + 4),
              read_string(code, ip + 4, name_len), read_u32(code, ip + 4 + name_len))

\* case OpCode::CALL, entered with the cursor ip just past the opcode
ExecCall(fns, st, frs, code, ip) == CallDecoded(fns, st, frs, code, ip, read_u32(code, ip))

\* case OpCode::LOAD_LOCAL and case OpCode::STORE_LOCAL with idx read
LoadLocal(st, frs, fr, idx) ==
    IF idx >= Len(fr.locals) THEN Undef(st, frs, "locals[idx] out of range")
    ELSE Running(Append(st, fr.locals[idx + 1]), frs)
StoreLocal(st, frs, fr, idx) ==
    IF idx >= Len(fr.locals) THEN Undef(Front(st, 1), frs, "locals[idx] out of range")
    ELSE Running(Front(st, 1), [frs EXCEPT ![Len(frs)].locals[idx + 1] = Top(st)])

\* The switch of VM::run on the opcode op fetched from the frame fr, with the
\* cursor ip after it
Dispatch(fns, st, frs, fr, code, op, ip) ==
    IF Arity(op) > Len(st)
    THEN Undef(st, SetIp(frs, IF op = STORE_LOCAL THEN ip + 4 ELSE ip),
               "pop() on an empty stack")
    ELSE
    CASE op = HALT -> [Running(st, SetIp(frs, ip)) EXCEPT !.pc = "returned"]
      [] op = PUSH_INT ->
            Running(Append(st, make_int(read_i64(code, ip))), SetIp(frs, ip + 8))
      [] op = PUSH_FLOAT ->
            Running(Append(st, make_float(read_double(code, ip))), SetIp(frs, ip + 8))
      [] op = PUSH_BOOL ->
            Running(Append(st, make_bool(code[ip + 1] # 0)), SetIp(frs, ip + 1))
      [] op = PUSH_STRING ->
            Running(Append(st, make_string(read_string(code, ip + 4, read_u32(code, ip)))),
                    SetIp(frs, ip + 4 + read_u32(code, ip)))
      [] op = LOAD_LOCAL -> LoadLocal(st, SetIp(frs, ip + 4), fr, read_u32(code, ip))
      [] op = STORE_LOCAL -> StoreLocal(st, SetIp(frs, ip + 4), fr, read_u32(code, ip))
      [] op \in BinaryOps ->
            Finish(ExecBinary(op, st[Len(st) - 1], Top(st)), Front(st, 2), SetIp(frs, ip))
      [] op \in UnaryOps ->
            Finish(ExecUnary(op, Top(st)), Front(st, 1), SetIp(frs, ip))
      [] op = CALL -> ExecCall(fns, st, frs, code, ip)
      [] op = RET -> PopFrame(st, frs)
      [] op = POP -> Running(Front(st, 1), SetIp(frs, ip))
      [] OTHER -> Thrown(st, SetIp(frs, ip), "unimplemented opcode")

\* One iteration of the `while (!frames.empty())` loop with the top frame fr
\* and its code
VMFrame(fns, st, frs, fr, code) ==
    IF fr.ip >= Len(code) THEN PopFrame(st, frs)
    ELSE Dispatch(fns, st, frs, fr, code, code[fr.ip + 1], fr.ip + 1)

\* One iteration of the `while (!frames.empty())` loop of VM::run:
\* [stack, frames, pc, what]
VMStep(fns, st, frs) == VMFrame(fns, st, frs, Top(frs), fns[Top(frs).fn].code)


-----------------------------------------------------------------------------
(* main(): parse, compile, run, print *)

MainName == <<"m","a","i","n">>

\* Frames the model lets a run stack up; the code's recursion is bounded by memory
MaxFrames == 4

NoToken == Token("End", <<>>, 0)

\* `catch (const exception& e) { cerr << "Error: " << e.what() }` after what
\* was printed before the throw
Caught(diag, msg) == cerr \o diag \o <<[error |-> msg]>>

\* After Parser p(demo); Program prog = p.parse_program(); returned or threw r
Parsed(r) ==
    /\ pc' = IF r.ok THEN "compile" ELSE "thrown"
    /\ prog' = IF r.ok THEN r.val ELSE prog
    /\ what' = IF r.ok THEN what ELSE r.err
    /\ errtok' = IF r.ok THEN errtok ELSE r.p.cur
    /\ cerr' = IF r.ok THEN cerr ELSE Caught(r.diag, r.err)

ParseProgram ==
    /\ pc = "parse"
    /\ Parsed(parse_program(src))
    /\ UNCHANGED <<src, functions, stack, frames, trace, cout, lex, tokens, compiler, vm, input>>

\* After Compiler c; c.compile(prog); VM vm = move(c.vm); and the list of the
\* compiled functions' names
CompiledProgram(r) ==
    /\ pc' = IF r.ok THEN "entry" ELSE "thrown"
    /\ functions' = IF r.ok THEN r.functions ELSE functions
    /\ cout' = IF r.ok THEN Append(cout, [compiled |-> DOMAIN r.functions]) ELSE cout
    /\ what' = IF r.ok THEN what ELSE r.err
    /\ cerr' = IF r.ok THEN cerr ELSE Caught(<<>>, r.err)

CompileProgram ==
    /\ pc = "compile"
    /\ CompiledProgram(compile(prog))
    /\ UNCHANGED <<src, errtok, prog, stack, frames, trace, lex, tokens, compiler, vm, input>>

\* The entry of VM::run: look main up and push its frame
RunEntry ==
    /\ pc = "entry"
    /\ IF MainName \notin DOMAIN functions
       THEN /\ cerr' = Append(cerr, [message |-> "no main function to run"])
            /\ pc' = "returned"
            /\ UNCHANGED frames
       ELSE /\ frames' = <<Frame(functions, MainName)>>
            /\ pc' = "loop"
            /\ UNCHANGED cerr
    /\ UNCHANGED <<src, what, errtok, prog, functions, stack, trace, cout, lex, tokens, compiler, vm, input>>

\* After one iteration of the dispatch loop left the VM as r
Stepped(r) ==
    /\ stack' = r.stack
    /\ frames' = r.frames
    /\ pc' = r.pc
    /\ what' = r.what
    /\ cerr' = IF r.pc = "thrown" THEN Caught(<<>>, r.what) ELSE cerr

\* One iteration of the dispatch loop of VM::run; trace records the function
\* and offset the iteration fetched from
Step ==
    /\ pc = "loop"
    /\ Len(frames) <= MaxFrames
    /\ Stepped(VMStep(functions, stack, frames))
    /\ trace' = Append(trace, [fn |-> Top(frames).fn, ip |-> Top(frames).ip])
    /\ UNCHANGED <<src, errtok, prog, functions, cout, lex, tokens, compiler, vm, input>>

\* After vm.run() returned: print the stack top if there is one
Report ==
    /\ pc = "returned"
    /\ pc' = "done"
    /\ cout' = Append(cout, IF stack # <<>> THEN [result |-> Top(stack)]
                            ELSE [finished |-> "no stack result"])
    /\ UNCHANGED <<src, what, errtok, prog, functions, stack, frames, trace, cerr, lex, tokens, compiler, vm, input>>

Next == ParseProgram \/ CompileProgram \/ RunEntry \/ Step \/ Report

\* Sprout's Compiler as constructed, and its VM before it is constructed
NoCompiler == [byteCode |-> <<>>, varNames |-> <<>>]
NoVM == [code |-> <<>>, pc |-> 0, stack |-> <<>>, vars |-> <<>>]

\* The state in which main() starts on program text s written from description d
Start(s, d) ==
    /\ src = s
    /\ input = d
    /\ pc = "parse"
    /\ what = ""
    /\ errtok = NoToken
    /\ prog = <<>>
    /\ functions = NoFunctions
    /\ stack = <<>>
    /\ frames = <<>>
    /\ trace = <<>>
    /\ cerr = <<>>
    /\ cout = <<>>
    /\ lex = Lexer(src)
    /\ tokens = <<>>
    /\ compiler = NoCompiler
    /\ vm = NoVM

-----------------------------------------------------------------------------
(* Program texts *)

\* The concatenation of a sequence of texts
RECURSIVE Cat(_)
Cat(ts) == IF ts = <<>> THEN <<>> ELSE ts[1] \o Cat(Tail(ts))

\* The decimal digits of n >= 0, and the text of an integer: negative numbers
\* are written with the unary minus
RECURSIVE NatText(_)
NatText(n) ==
    IF n < 10 THEN <<Printable[17 + n]>>
    ELSE Append(NatText(n \div 10), Printable[17 + (n % 10)])
IntText(n) == IF n < 0 THEN <<"-">> \o NatText(-n) ELSE NatText(n)

T_func == <<"f","u","n","c">>
T_main == <<"m","a","i","n">>
T_int == <<"i","n","t">>
T_add == <<"a","d","d">>
T_missing == <<"m","i","s","s","i","n","g">>
T_true == <<"t","r","u","e">>
T_false == <<"f","a","l","s","e">>

\* Expressions as they are written: a node is <<kind, text, children>>
Lit(text) == <<"lit", text, <<>> >>
Num(n) == IF n < 0 THEN <<"un", <<"-">>, <<Lit(NatText(-n))>> >> ELSE Lit(NatText(n))
Id(name) == <<"id", name, <<>> >>
Op(text) == <<"op", text, <<>> >>
Un(op, a) == <<"un", op, <<a>> >>
Chain(items) == <<"chain", <<>>, items>>
Bin(op, a, b) == Chain(<<a, Op(op), b>>)
Par(a) == <<"par", <<>>, <<a>> >>
If(c, t, e) == <<"if", <<>>, <<c, t, e>> >>
CallOf(f, args) == <<"call", f, args>>

\* The text of an expression; the items of a chain are set apart by blanks
RECURSIVE Render(_)
RECURSIVE RenderList(_, _)
RenderList(ts, sep) ==
    IF ts = <<>> THEN <<>>
    ELSE IF Len(ts) = 1 THEN Render(ts[1])
    ELSE Render(ts[1]) \o sep \o RenderList(Tail(ts), sep)
Render(t) ==
    CASE t[1] \in {"lit", "id", "op"} -> t[2]
      [] t[1] = "un" -> t[2] \o Render(t[3][1])
      [] t[1] = "chain" -> RenderList(t[3], <<" ">>)
      [] t[1] = "par" -> <<"(">> \o Render(t[3][1]) \o <<")">>
      [] t[1] = "if" ->
            Cat(<< <<"i","f"," ">>, Render(t[3][1]), <<" ","t","h","e","n"," ">>,
                   Render(t[3][2]), <<" ","e","l","s","e"," ">>, Render(t[3][3]),
                   <<" ","f","i">> >>)
      [] t[1] = "call" -> t[2] \o <<"(">> \o RenderList(t[3], <<",", " ">>) \o <<")">>

\* `name: int, name: int`
RECURSIVE ParamsText(_)
ParamsText(ps) ==
    IF ps = <<>> THEN <<>>
    ELSE Cat(<<ps[1], <<":", " ">>, T_int,
               IF Len(ps) = 1 THEN <<>> ELSE <<",", " ">> \o ParamsText(Tail(ps))>>)

\* A function as it is written: [name, params, body]
Func(name, params, body) == [name |-> name, params |-> params, body |-> body]

\* `func NAME(PARAMS): int == BODY`, then a line break
FuncText(f) ==
    Cat(<<T_func, <<" ">>, f.name, <<"(">>, ParamsText(f.params), <<")", ":", " ">>, T_int,
          <<" ", "=", "=", " ">>, Render(f.body), <<"\n">> >>)

RECURSIVE FuncsText(_)
FuncsText(fs) == IF fs = <<>> THEN <<>> ELSE FuncText(fs[1]) \o FuncsText(Tail(fs))

\* A program as it is written: its functions, then at most one bare expression.
\* family and k say which of the programs below it is.
Program(family, k, funcs, bare) ==
    [family |-> family, k |-> k, funcs |-> funcs, bare |-> bare]
ProgramText(d) == FuncsText(d.funcs) \o RenderList(d.bare, <<" ">>)

\* The demo program of main(), with its line breaks and indentation
DemoSrc ==
    Cat(<< <<"\n", " ", " ", " ", " ", " ", " ", " ", " ">>,
           T_func, <<" ">>, T_add, <<"(", "x", ":", " ">>, T_int,
           <<",", " ", "y", ":", " ">>, T_int,
           <<")", ":", " ">>, T_int, <<" ", "=", "=", " ", "x", " ", "+", " ", "y">>,
           <<"\n", " ", " ", " ", " ", " ", " ", " ", " ">>,
           T_func, <<" ">>, T_main, <<"(", ")", ":", " ">>, T_int, <<" ", "=", "=", " ">>,
           T_add, <<"(", "3", ",", " ", "4", ")">>,
           <<"\n", " ", " ", " ", " ">> >>)

\* Integer literals of the generated programs range over -MaxInt..MaxInt
MaxInt == 3
Ints == (-MaxInt)..MaxInt
Nats == 0..MaxInt

\* The binary operators of the language, by level
OrOps == { <<"|">> }
AndOps == { <<"&">> }
EqualityOps == { <<"=", "=">>, <<"!", "=">>, <<"=">> }
RelationalOps == { <<"<">>, <<"<", "=">>, <<">">>, <<">", "=">> }
AdditiveOps == { <<"+">>, <<"-">> }
MultiplicativeOps == { <<"*">>, <<"/">>, <<"%">> }
BinaryOpTexts ==
    OrOps \cup AndOps \cup EqualityOps \cup RelationalOps \cup AdditiveOps
        \cup MultiplicativeOps

AddFunc == Func(T_add, << <<"x">>, <<"y">> >>, Bin(<<"+">>, Id(<<"x">>), Id(<<"y">>)))
MainFunc(body) == Func(T_main, <<>>, body)
MainOnly(family, k, body) == Program(family, k, <<MainFunc(body)>>, <<>>)
T_f == <<"f">>

DemoProgram ==
    Program("demo", <<>>, <<AddFunc, MainFunc(CallOf(T_add, <<Num(3), Num(4)>>))>>, <<>>)

\* main calls a two-parameter function whose body uses its parameters
CallBodies ==
    { Id(<<"x">>), Id(<<"y">>), Bin(<<"+">>, Id(<<"x">>), Id(<<"y">>)),
      Bin(<<"-">>, Id(<<"x">>), Id(<<"y">>)), Bin(<<"*">>, Id(<<"y">>), Id(<<"x">>)) }
CallPrograms ==
    { Program("call", <<b, a1, a2>>,
              <<Func(T_f, << <<"x">>, <<"y">> >>, b),
                MainFunc(CallOf(T_f, <<Num(a1), Num(a2)>>))>>, <<>>) :
        b \in CallBodies, a1 \in Nats, a2 \in Nats }

\* main is `a op b`
BinopPrograms ==
    { MainOnly("binop", <<op, a, b>>, Bin(op, Num(a), Num(b))) :
        op \in BinaryOpTexts, a \in Ints, b \in Ints }

\* main is `if c then t else e fi`.  A condition is written d and has the truth
\* value v; a branch is written d and has the value v, or faults: it calls an
\* undeclared function or divides by zero.
Conds ==
    { [d |-> Bin(<<"<">>, Num(a), Num(b)), v |-> a < b] : a \in 1..2, b \in 1..2 }
        \cup { [d |-> Bin(<<"=", "=">>, Num(a), Num(b)), v |-> a = b] : a \in 1..2, b \in 1..2 }
        \cup { [d |-> Lit(T_true), v |-> TRUE], [d |-> Lit(T_false), v |-> FALSE] }
Branches ==
    { [d |-> Num(10), v |-> 10, faults |-> FALSE],
      [d |-> Num(20), v |-> 20, faults |-> FALSE],
      [d |-> CallOf(T_missing, <<>>), v |-> 0, faults |-> TRUE],
      [d |-> Bin(<<"/">>, Num(1), Num(0)), v |-> 0, faults |-> TRUE] }
IfPrograms ==
    { MainOnly("if", <<c, t, e>>, If(c.d, t.d, e.d)) :
        c \in Conds, t \in Branches, e \in Branches }

\* main is `f(1) + 5`, where f's body is an if-expression
IfInFuncPrograms ==
    { Program("iffn", <<c>>,
              <<Func(T_f, << <<"n">> >>, If(c.d, Num(10), Num(20))),
                MainFunc(Bin(<<"+">>, CallOf(T_f, <<Num(1)>>), Num(5)))>>, <<>>) :
        c \in Conds }

\* f calls itself in the branch its condition does not select
RecPrograms ==
    { Program("rec", <<c>>,
              <<Func(T_f, << <<"n">> >>, c),
                MainFunc(CallOf(T_f, <<Num(1)>>))>>, <<>>) :
        c \in { If(Bin(<<"<">>, Num(1), Num(2)), Num(1), CallOf(T_f, <<Num(0)>>)),
                If(Lit(T_false), CallOf(T_f, <<Num(0)>>), Num(1)) } }

\* main calls a function that is not declared
UnknownBodies ==
    { CallOf(T_missing, <<>>), CallOf(T_missing, <<Num(1), Num(2)>>),
      Bin(<<"+">>, Num(1), CallOf(T_missing, <<>>)),
      Bin(<<"+">>, CallOf(T_missing, <<>>), Num(1)),
      Un(<<"-">>, CallOf(T_missing, <<Num(1)>>)),
      CallOf(T_f, <<CallOf(T_missing, <<>>)>>),
      CallOf(T_f, <<Num(1), CallOf(<<"g">>, <<Num(2)>>)>>) }
UnknownPrograms ==
    { Program("unknown", <<b>>, <<Func(T_f, << <<"x">>, <<"y">> >>, Num(1)), MainFunc(b)>>,
              <<>>) : b \in UnknownBodies }

\* Programs that declare no main, among them the empty text
NoMainPrograms ==
    { Program("nomain", <<fs>>, fs, <<>>) :
        fs \in { <<>>, <<Func(T_f, <<>>, Num(1))>>, <<AddFunc>>,
                 <<AddFunc, Func(T_f, << <<"n">> >>, CallOf(T_add, <<Num(1), Num(2)>>))>>,
                 <<Func(<<"M","a","i","n">>, <<>>, Num(1))>> } }
CommentSrc == <<"/", "/", " ", "m", "a", "i", "n", "\n", " ">>

\* Calls with more and fewer arguments than the callee has parameters and locals
ArityPrograms ==
    { Program("arity", <<n>>,
              <<Func(T_f, << <<"x">> >>, Id(<<"x">>)),
                MainFunc(CallOf(T_f, [k \in 1..n |-> Num(k)]))>>, <<>>) : n \in 0..6 }

\* `2 op1 3 op2 4`, bare; with a unary operator on an operand; with parentheses
PairOf(op1, op2) == Chain(<<Num(2), Op(op1), Num(3), Op(op2), Num(4)>>)
PairPrograms ==
    { Program("pair", <<op1, op2>>, <<>>, <<PairOf(op1, op2)>>) :
        op1 \in BinaryOpTexts, op2 \in BinaryOpTexts }
UnaryOpTexts == { <<"-">>, <<"!">> }
UnaryPrograms ==
    { Program("unary", <<u, op, side>>, <<>>,
              <<IF side = 1 THEN Chain(<<Un(u, Num(2)), Op(op), Num(3)>>)
                ELSE Chain(<<Num(2), Op(op), Un(u, Num(3))>>)>>) :
        u \in UnaryOpTexts, op \in BinaryOpTexts, side \in 1..2 }
ParenPrograms ==
    { Program("paren", <<op1, op2, side>>, <<>>,
              <<IF side = 1
                THEN Chain(<<Par(Bin(op1, Num(2), Num(3))), Op(op2), Num(4)>>)
                ELSE Chain(<<Num(2), Op(op1), Par(Bin(op2, Num(3), Num(4)))>>)>>) :
        op1 \in BinaryOpTexts, op2 \in BinaryOpTexts, side \in 1..2 }

\* Chains `1 op 2 op 3 ...` of operators of one level, of up to MaxOps operators
MaxOps == 3
Levels == {OrOps, AndOps, EqualityOps, RelationalOps, AdditiveOps, MultiplicativeOps}
OpRuns == UNION { [1..n -> L] : n \in 2..MaxOps, L \in Levels }

\* The items of the chain of operands from, from + 1, ... joined by ops
RECURSIVE ChainItems(_, _)
ChainItems(ops, from) ==
    IF ops = <<>> THEN <<Num(from)>>
    ELSE <<Num(from), Op(ops[1])>> \o ChainItems(Tail(ops), from + 1)
ChainPrograms ==
    { Program("chain", <<ops>>, <<>>, <<Chain(ChainItems(ops, 1))>>) : ops \in OpRuns }

\* A chain of two operators of one level after `9 opx` or before `opx 9`, with
\* opx of another level
LevelOf(op) == CHOOSE L \in Levels : op \in L
ContextCases ==
    { c \in { r \in OpRuns : Len(r) = 2 } \X BinaryOpTexts \X (1..2) :
        LevelOf(c[2]) # LevelOf(c[1][1]) }
ContextPrograms ==
    { Program("context", c, <<>>,
              <<IF c[3] = 1
                THEN Chain(<<Num(9), Op(c[2])>> \o ChainItems(c[1], 1))
                ELSE Chain(ChainItems(c[1], 1) \o <<Op(c[2]), Num(9)>>)>>) :
        c \in ContextCases }

\* Literal operands of each kind: d is the literal as written, v the Value it
\* stands for
Operand(d, v) == [d |-> d, v |-> v]
Operands ==
    { Operand(Lit(<<"1">>), make_int(1)), Operand(Lit(<<"2">>), make_int(2)),
      Operand(Lit(<<"0", ".", "5">>), make_float(Dbl(1, 2))),
      Operand(Lit(<<"2", ".", "0">>), make_float(Dbl(2, 1))),
      Operand(Lit(T_true), make_bool(TRUE)), Operand(Lit(T_false), make_bool(FALSE)),
      Operand(Lit(<<"\"", "a", "\"">>), make_string(<<"a">>)),
      Operand(Lit(<<"\"", "\"">>), make_string(<<>>)) }

\* main is `a op b` and `u a` with literal operands of every kind
TypedPrograms ==
    { MainOnly("typed", <<op, a, b>>, Bin(op, a.d, b.d)) :
        op \in BinaryOpTexts \ {<<"<", "=">>, <<">", "=">>}, a \in Operands, b \in Operands }
TypedUnaryPrograms ==
    { MainOnly("typedun", <<u, a>>, Un(u, a.d)) : u \in UnaryOpTexts, a \in Operands }


\* Bytecode written into VM::functions by hand: PushCode appends the
\* instruction that pushes v, for `no value` the load of a local never stored to
PushCode(code, v) ==
    CASE v.kind = "Int" -> emit_u64(emit_u8(code, PUSH_INT), v.ival)
      [] v.kind = "Float" -> emit_double(emit_u8(code, PUSH_FLOAT), v.fval)
      [] v.kind = "Bool" -> emit_u8(emit_u8(code, PUSH_BOOL), IF v.bval THEN 1 ELSE 0)
      [] v.kind = "String" -> emit_string(emit_u8(code, PUSH_STRING), v.sval)
      [] OTHER -> emit_u32(emit_u8(code, LOAD_LOCAL), 0)

\* A VM whose only function is main, with the given code and one local
MainIs(code) == Assign(NoFunctions, MainName, FunctionBytecode(code, 1))

\* main pushes a and b and executes a binary opcode, or pushes a and executes a
\* unary one, and returns by running off the end of its code
OperandValues == { Operand(<<>>, o.v) : o \in Operands } \cup { Operand(<<>>, NoValue) }
BinaryOpPrograms ==
    { Program("ops", <<op, a, b>>, <<>>, <<>>) :
        op \in BinaryOps, a \in OperandValues, b \in OperandValues }
UnaryOpPrograms ==
    { Program("unops", <<op, a>>, <<>>, <<>>) : op \in UnaryOps, a \in OperandValues }
BinaryOpCodeOf(d) == emit_u8(PushCode(PushCode(<<>>, d.k[2].v), d.k[3].v), d.k[1])
UnaryOpCodeOf(d) == emit_u8(PushCode(<<>>, d.k[2].v), d.k[1])

\* main calls f below a value it has pushed, and f calls g the same way
T_g == <<"g">>
NestedCallPrograms ==
    { Program("calls", <<a1, a2>>,
              <<Func(T_g, << <<"n">> >>, Num(4)),
                Func(T_f, << <<"x">>, <<"y">> >>, Bin(<<"-">>, Num(8), CallOf(T_g, <<Num(3)>>))),
                MainFunc(Chain(<<Num(9), Op(<<"+">>), CallOf(T_f, <<Num(a1), Num(a2)>>),
                                 Op(<<"*">>), Num(2)>>))>>, <<>>) :
        a1 \in Nats, a2 \in Nats }

\* Instructions as they are assembled by hand
PushInt(code, n) == PushCode(code, make_int(n))
CallCode(code, name, nargs) == emit_u32(emit_string(emit_u8(code, CALL), name), nargs)
LocalCode(code, op, idx) == emit_u32(emit_u8(code, op), idx)

\* Functions main and f written as bytecode: returns by RET, by running off the
\* end of the code and by HALT, arguments read back from the locals, a callee
\* with too few locals, an opcode that does not exist
TwoFunctions(main, f, nlocals) ==
    Assign(MainIs(main), T_f, FunctionBytecode(f, nlocals))
AssembledFunctions(i) ==
    CASE i = 1 -> TwoFunctions(emit_u8(PushInt(CallCode(PushInt(<<>>, 1), T_f, 0), 2), ADD),
                               PushInt(<<>>, 5), 1)
      [] i = 2 -> TwoFunctions(PushInt(CallCode(PushInt(<<>>, 1), T_f, 1), 2),
                               emit_u8(LocalCode(<<>>, LOAD_LOCAL, 0), HALT), 2)
      [] i = 3 -> TwoFunctions(CallCode(PushInt(PushInt(<<>>, 1), 2), T_f, 2),
                               PushInt(emit_u8(emit_u8(LocalCode(LocalCode(<<>>, LOAD_LOCAL, 1),
                                                                 LOAD_LOCAL, 0), SUB), RET), 9),
                               2)
      [] i = 4 -> MainIs(emit_u8(emit_u8(LocalCode(LocalCode(LocalCode(PushInt(<<>>, 3),
                             STORE_LOCAL, 0), LOAD_LOCAL, 0), LOAD_LOCAL, 0), MUL), RET))
      [] i = 5 -> TwoFunctions(CallCode(<<>>, T_f, 0), <<>>, 1)
      [] i = 6 -> TwoFunctions(CallCode(PushInt(PushInt(<<>>, 1), 2), T_f, 2),
                               PushInt(<<>>, 5), 1)
      [] i = 7 -> MainIs(emit_u8(PushInt(<<>>, 1), 99))
      [] i = 8 -> MainIs(emit_u8(emit_u8(PushInt(<<>>, 1), HALT), NEG))
      [] i = 9 -> Assign(TwoFunctions(emit_u8(CallCode(PushInt(PushInt(PushInt(<<>>, 7), 1), 2),
                                                       T_f, 2), ADD),
                                      emit_u8(CallCode(LocalCode(<<>>, LOAD_LOCAL, 1), T_g, 1),
                                              RET), 2),
                         T_g, FunctionBytecode(emit_u8(PushInt(LocalCode(<<>>, LOAD_LOCAL, 0), 1),
                                                       ADD), 3))
AssembledPrograms == { Program("asm", <<i>>, <<>>, <<>>) : i \in 1..9 }

\* Texts that are no program, each with the offset and the text of its first
\* token that cannot continue a program: a missing function name, parameter
\* name, type, `:`, `==`, `)`, `else`, or operand
BadText(text, pos, got) == [text |-> text, pos |-> pos, got |-> got]
BadTexts ==
    { BadText(<<"f", "u", "n", "c", " ", "1">>,
              5, <<"1">>),
      BadText(<<"f", "u", "n", "c", " ", "f", "(", "1", ")">>,
              7, <<"1">>),
      BadText(<<"f", "u", "n", "c", " ", "f", "(", "x", " ", "i", "n", "t", ")">>,
              9, <<"i", "n", "t">>),
      BadText(<<"f", "u", "n", "c", " ", "f", "(", "x", ":", " ", ")">>,
              10, <<")">>),
      BadText(<<"f", "u", "n", "c", " ", "f", "(", ")", " ", "i", "n", "t">>,
              9, <<"i", "n", "t">>),
      BadText(<<"f", "u", "n", "c", " ", "f", "(", ")", ":", " ", "=", "=", " ", "1">>,
              10, <<"=", "=">>),
      BadText(<<"f", "u", "n", "c", " ", "f", "(", ")", ":", " ", "i", "n", "t", " ", "=", " ", "1">>,
              14, <<"=">>),
      BadText(<<"f", "u", "n", "c", " ", "f", "(", ")", ":", " ", "i", "n", "t", " ", "=", "=", " ", ")">>,
              17, <<")">>),
      BadText(<<"(", "1">>,
              2, <<>>),
      BadText(<<"i", "f", " ", "1", " ", "t", "h", "e", "n", " ", "2", " ", "f", "i">>,
              12, <<"f", "i">>),
      BadText(<<"f", "(", "1">>,
              3, <<>>),
      BadText(<<"1", " ", "+">>,
              3, <<>>),
      BadText(<<"f", "u", "n", "c", " ", "f", "(", "x", ":", " ", "i", "n", "t">>,
              13, <<>>),
      BadText(<<"1", " ", ")">>,
              2, <<")">>),
      BadText(<<"f", "u", "n", "c">>,
              4, <<>>),
      BadText(<<"f", "u", "n", "c", " ", "f", "(", "x", ":", " ", "i", "n", "t", ",", ")">>,
              14, <<")">>),
      BadText(<<"i", "f", " ", "1", " ", "e", "l", "s", "e", " ", "2", " ", "f", "i">>,
              5, <<"e", "l", "s", "e">>),
      BadText(<<"f", "u", "n", "c", " ", "m", "a", "i", "n", "(", ")", ":", " ", "i", "n", "t", " ", "=", "=", " ", "1", " ", "f", "u", "n", "c">>,
              26, <<>>),
      BadText(<<"2", " ", "*", " ", "(", "3", " ", "+", " ", ")">>,
              9, <<")">>),
      BadText(<<"f", "(", "1", ",", ")">>,
              4, <<")">>) }
BadProgram(c) == Program("syntax", <<c.pos, c.got>>, <<>>, <<>>)

\* `1 op 2` for the two-character operators and their first characters, with
\* the kind the operator's token is to have; the one-character kinds are those
\* of the punctuation switch
OperatorKinds ==
    { << <<"-", ">">>, "Arrow" >>, << <<"=", "=">>, "EqEq" >>, << <<"!", "=">>, "NotEq" >>,
      << <<"<", "=">>, "LessEq" >>, << <<">", "=">>, "GreaterEq" >>,
      << <<"-">>, "Minus" >>, << <<"=">>, "Eq" >>, << <<"!">>, "Unknown" >>,
      << <<"<">>, "Less" >>, << <<">">>, "Greater" >> }
OperatorTexts ==
    { [text |-> Cat(<< <<"1">>, sp, c[1], sp, <<"2">> >>), op |-> c[1], kind |-> c[2]] :
        c \in OperatorKinds, sp \in { <<>>, <<" ">> } }
OperatorProgram(c) == Program("lexop", <<c.op, c.kind>>, <<>>, <<>>)

\* Texts that start with a run of digits, each with the kind and the length the
\* literal is to have and the kind of the token that is to follow it
NumberText(text, kind, len, then) == [text |-> text, kind |-> kind, len |-> len, then |-> then]
NumberTexts ==
    { NumberText(<<"1", "2">>, "NumberLiteral", 2, "End"),
      NumberText(<<"1", ".", "5">>, "FloatLiteral", 3, "End"),
      NumberText(<<"1", "2", ".", "2", "5">>, "FloatLiteral", 5, "End"),
      NumberText(<<"1", ".">>, "NumberLiteral", 1, "Dot"),
      NumberText(<<"1", ".", "x">>, "NumberLiteral", 1, "Dot"),
      NumberText(<<"1", ".", " ", "5">>, "NumberLiteral", 1, "Dot"),
      NumberText(<<"1", ".", "+", "2">>, "NumberLiteral", 1, "Dot"),
      NumberText(<<"1", ".", ".", "2">>, "NumberLiteral", 1, "Dot"),
      NumberText(<<"1", "e", "5">>, "FloatLiteral", 3, "End"),
      NumberText(<<"1", "E", "+", "5">>, "FloatLiteral", 4, "End"),
      NumberText(<<"5", "e", "-", "1">>, "FloatLiteral", 4, "End"),
      NumberText(<<"2", ".", "5", "e", "3">>, "FloatLiteral", 5, "End"),
      NumberText(<<"1", "e">>, "FloatLiteral", 2, "End"),
      NumberText(<<"1", "e", "+">>, "FloatLiteral", 3, "End"),
      NumberText(<<"1", "x">>, "NumberLiteral", 1, "Ident"),
      NumberText(<<"1", ".", "5", ".", "2">>, "FloatLiteral", 3, "Dot"),
      NumberText(<<"7", " ">>, "NumberLiteral", 1, "End"),
      NumberText(<<"1", ".", "e", "5">>, "NumberLiteral", 1, "Dot"),
      NumberText(<<"1", " ", ".", "5">>, "NumberLiteral", 1, "Dot"),
      NumberText(<<"1", "0", " ", "+", " ", "2">>, "NumberLiteral", 2, "Plus") }
NumberProgram(c) == Program("number", <<c.kind, c.len, c.then>>, <<>>, <<>>)

\* String literals whose content is the text of an operator, or not, written
\* as main's body (1), as the right (2) and the left (3) operand of `+`, and
\* bare between two numbers (4)
StringContents ==
    { <<"!">>, <<"=">>, <<"=", "=">>, <<"<">>, <<">">>, <<"<", "=">>, <<">", "=">>,
      <<"a">>, <<"+">>, <<>> }
Quoted(c) == Lit(<<"\"">> \o c \o <<"\"">>)
StringPrograms ==
    { MainOnly("strlit", <<c, 1>>, Quoted(c)) : c \in StringContents }
        \cup { MainOnly("strlit", <<c, 2>>, Bin(<<"+">>, Quoted(<<"a">>), Quoted(c))) :
                 c \in StringContents }
        \cup { MainOnly("strlit", <<c, 3>>, Bin(<<"+">>, Quoted(c), Quoted(<<"a">>))) :
                 c \in StringContents }
        \cup { Program("strlit", <<c, 4>>, <<>>, <<Num(1), Quoted(c), Num(2)>>) :
                 c \in StringContents }

\* The examples of the language description
ExamplePrograms ==
    { MainOnly("example", <<1>>, PairOf(<<"+">>, <<"*">>)),
      MainOnly("example", <<2>>, Chain(<<Par(Bin(<<"+">>, Num(2), Num(3))), Op(<<"*">>), Num(4)>>)),
      MainOnly("example", <<3>>, Chain(<<Num(10), Op(<<"-">>), Num(4), Op(<<"-">>), Num(3)>>)),
      MainOnly("example", <<4>>, Chain(<<Num(8), Op(<<"/">>), Num(4), Op(<<"/">>), Num(2)>>)),
      MainOnly("example", <<5>>, If(Bin(<<"<">>, Num(1), Num(2)), Num(10), Num(20))),
      MainOnly("example", <<6>>, If(Bin(<<"<">>, Num(2), Num(1)), Num(10), Num(20))),
      MainOnly("example", <<7>>, If(Bin(<<"<">>, Num(1), Num(2)), Num(10), CallOf(T_missing, <<>>))),
      MainOnly("example", <<8>>, CallOf(T_missing, <<>>)) }

\* VM::run() entered on a VM that holds the functions fns
StartRun(fns, d) ==
    /\ src = <<>>
    /\ input = d
    /\ pc = "entry"
    /\ what = ""
    /\ errtok = NoToken
    /\ prog = <<>>
    /\ functions = fns
    /\ stack = <<>>
    /\ frames = <<>>
    /\ trace = <<>>
    /\ cerr = <<>>
    /\ cout = <<>>
    /\ lex = Lexer(src)
    /\ tokens = <<>>
    /\ compiler = NoCompiler
    /\ vm = NoVM

\* main() started on the text of one of the programs of set ds
StartAny(ds) == \E d \in ds : Start(ProgramText(d), d)

Init ==
    \/ Start(DemoSrc, DemoProgram)
    \/ Start(CommentSrc, Program("nomain", <<"comment">>, <<>>, <<>>))
    \/ StartAny(CallPrograms)
    \/ StartAny(BinopPrograms)
    \/ StartAny(IfPrograms)
    \/ StartAny(IfInFuncPrograms)
    \/ StartAny(RecPrograms)
    \/ StartAny(UnknownPrograms)
    \/ StartAny(NoMainPrograms)
    \/ StartAny(ArityPrograms)
    \/ StartAny(PairPrograms)
    \/ StartAny(UnaryPrograms)
    \/ StartAny(ParenPrograms)
    \/ StartAny(ChainPrograms)
    \/ StartAny(ContextPrograms)
    \/ StartAny(ExamplePrograms)
    \/ StartAny(TypedPrograms)
    \/ StartAny(TypedUnaryPrograms)
    \/ \E d \in BinaryOpPrograms : StartRun(MainIs(BinaryOpCodeOf(d)), d)
    \/ \E d \in UnaryOpPrograms : StartRun(MainIs(UnaryOpCodeOf(d)), d)
    \/ StartAny(NestedCallPrograms)
    \/ \E c \in BadTexts : Start(c.text, BadProgram(c))
    \/ \E c \in OperatorTexts : Start(c.text, OperatorProgram(c))
    \/ \E c \in NumberTexts : Start(c.text, NumberProgram(c))
    \/ StartAny(StringPrograms)
    \/ \E d \in AssembledPrograms : StartRun(AssembledFunctions(d.k[1]), d)

Spec == Init /\ [][Next]_vars

\* The runs of the integer programs, under the fairness that sequential code
\* has: run(), once called, is entered, and its loop, which does nothing but
\* dispatch, takes the next iteration
LiveInit ==
    \/ Start(DemoSrc, DemoProgram)
    \/ StartAny(CallPrograms)
    \/ StartAny(NestedCallPrograms)
    \/ StartAny(BinopPrograms)
    \/ StartAny(IfPrograms)
    \/ StartAny(IfInFuncPrograms)
    \/ StartAny(RecPrograms)
    \/ StartAny(UnknownPrograms)
    \/ StartAny(NoMainPrograms)
    \/ StartAny(ArityPrograms)
    \/ StartAny(ExamplePrograms)

LiveSpec == LiveInit /\ [][Next]_vars /\ WF_vars(RunEntry) /\ WF_vars(Step)

-----------------------------------------------------------------------------
(* The lexer driven one next() at a time *)

\* A byte from 0x80 up, as the bytes of a UTF-8 sequence are: a negative char
HighByte == "0x80"

\* The characters the texts handed to the lexer alone are written in
LexAlphabet == {"a", "1", "=", "\"", "'", "\\", " ", "/", "\n", "@", NUL, HighByte}

\* The longest such text
MaxText == 3

\* The calls of next() made after the one that first returns End
MaxCallsAtEnd == 2

LexTexts == UNION { [1..n -> LexAlphabet] : n \in 0..MaxText }

\* The kinds of the tokens that `if (isalpha(c) || c == '_')` and
\* `if (isdigit(c) || ...)` return
WordKinds == {"Ident", "BoolLiteral", "NumberLiteral", "FloatLiteral"} \cup { keywords[w] : w \in DOMAIN keywords }

\* next() called on lexer lx0 hands a negative char to isalpha, isalnum or
\* isdigit, whose behaviour is then undefined: the char c that no case of the
\* switch took, or the char at which the loop of a word or of a number stops
ClassifiesNegativeChar(s, lx0) ==
    Let(Lexer_next(s, lx0),
        LAMBDA r : \/ r.tok.kind = "Unknown" /\ r.tok.text = <<HighByte>>
                   \/ r.tok.kind \in WordKinds /\ peek(s, r.lx.i) = HighByte)

\* next() returned r
Returned(r) ==
    /\ tokens' = Append(tokens, r.tok)
    /\ lex' = r.lx
    /\ UNCHANGED <<pc, what>>

\* One call of next() on the lexer.  Where the call classifies a negative char
\* the <cctype> function either answers 0, as a table lookup does, or stops the
\* program, as a checked C runtime does
NextToken ==
    /\ pc = "lex"
    /\ Len(tokens) <= Len(src) + MaxCallsAtEnd
    /\ \/ Returned(Lexer_next(src, lex))
       \/ /\ ClassifiesNegativeChar(src, lex)
          /\ pc' = "undefined"
          /\ what' = "<cctype> function called with a negative char"
          /\ UNCHANGED <<lex, tokens>>
    /\ UNCHANGED <<src, errtok, prog, functions, stack, frames, trace, cerr, cout, compiler,
                 vm, input>>

\* A Lexer constructed over text s, before its first next()
StartLexer(s) ==
    /\ src = s
    /\ input = [family |-> "lex", k |-> <<>>]
    /\ pc = "lex"
    /\ what = ""
    /\ errtok = NoToken
    /\ prog = <<>>
    /\ functions = NoFunctions
    /\ stack = <<>>
    /\ frames = <<>>
    /\ trace = <<>>
    /\ cerr = <<>>
    /\ cout = <<>>
    /\ lex = Lexer(src)
    /\ tokens = <<>>
    /\ compiler = NoCompiler
    /\ vm = NoVM

LexInit == \E s \in LexTexts : StartLexer(s)

LexSpec == LexInit /\ [][NextToken]_vars

-----------------------------------------------------------------------------
(* Sprout, the statement language (src/Sprout): Lexer.h, Parser.h *)

isspace(c) == c \in {" ", "\t", "\n", "\r"}

\* Token{ type, text }
SproutToken(type, text) == [type |-> type, text |-> text]

\* `while (pos < src.size() && std::isspace(src[pos])) pos++`
RECURSIVE skipWhitespace(_, _)
skipWhitespace(s, pos) ==
    IF pos < Len(s) /\ isspace(s[pos + 1]) THEN skipWhitespace(s, pos + 1) ELSE pos

\* `while (pos < src.size() && std::isalnum(src[pos])) pos++`, and the same with isdigit
RECURSIVE alnum_run(_, _)
alnum_run(s, pos) == IF pos < Len(s) /\ isalnum(s[pos + 1]) THEN alnum_run(s, pos + 1) ELSE pos
RECURSIVE digit_run(_, _)
digit_run(s, pos) == IF pos < Len(s) /\ isdigit(s[pos + 1]) THEN digit_run(s, pos + 1) ELSE pos

\* The type of an identifier or keyword
word_type(text) ==
    IF text = <<"l", "e", "t">> THEN "Let"
    ELSE IF text = <<"p", "r", "i", "n", "t">> THEN "Print"
    ELSE "Identifier"

\* The type of a single-char token
char_type(c) ==
    CASE c = "=" -> "Equals"
      [] c = "+" -> "Plus"
      [] c = "-" -> "Minus"
      [] c = "*" -> "Star"
      [] c = "/" -> "Slash"
      [] c = ";" -> "Semicolon"
      [] c = "(" -> "LParen"
      [] c = ")" -> "RParen"
      [] OTHER -> "Unknown"

\* Lexer::next() from the character c at pos on: [tok, pos]
Sprout_scan(s, pos, c) ==
    IF isalpha(c)
    THEN Let(alnum_run(s, pos), LAMBDA j :
             [tok |-> SproutToken(word_type(SubStr(s, pos, j)), SubStr(s, pos, j)), pos |-> j])
    ELSE IF isdigit(c)
    THEN Let(digit_run(s, pos), LAMBDA j :
             [tok |-> SproutToken("Number", SubStr(s, pos, j)), pos |-> j])
    ELSE [tok |-> SproutToken(char_type(c), <<c>>), pos |-> pos + 1]

\* Lexer::next() once skipWhitespace() has left the cursor at pos
Sprout_at(s, pos) ==
    IF pos >= Len(s) THEN [tok |-> SproutToken("EndOfFile", <<>>), pos |-> pos]
    ELSE Sprout_scan(s, pos, s[pos + 1])

\* Lexer::next(): [tok, pos], the token and the cursor after it
Sprout_next(s, pos) == Sprout_at(s, skipWhitespace(s, pos))

\* AST nodes
NumberExpr(value) == [tag |-> "Number", value |-> value]
VariableExpr(name) == [tag |-> "Variable", name |-> name]
SproutBinaryExpr(op, left, right) == [tag |-> "Binary", op |-> op, left |-> left, right |-> right]
LetStmt(name, expr) == [tag |-> "Let", name |-> name, expr |-> expr]
PrintStmt(expr) == [tag |-> "Print", expr |-> expr]
ExprStmt(expr) == [tag |-> "Expr", expr |-> expr]

\* INT_MAX and INT_MIN of the int the VM computes in
IntMax == 2147483647
IntMin == -IntMax - 1

\* A parser is the cursor of its lexer and its current token: [pos, current].
\* A parse function returns [ok, val, p, err]: the node and the parser after
\* it, or the message of the runtime_error thrown
Parsing(val, p) == [ok |-> TRUE, val |-> val, p |-> p, err |-> ""]
SyntaxError(msg, p) == [ok |-> FALSE, val |-> <<>>, p |-> p, err |-> msg]

\* Parser::advance()
Sprout_advance(s, p) ==
    Let(Sprout_next(s, p.pos), LAMBDA r : [pos |-> r.pos, current |-> r.tok])

\* Parser::expect(t)
Sprout_expect(s, p, t) ==
    IF p.current.type # t THEN SyntaxError("syntax error", p)
    ELSE Parsing(<<>>, Sprout_advance(s, p))

\* std::stoi of a Number token of up to nine digits; parseFactor lets a longer
\* one stand for the numbers beyond INT_MAX, at which stoi throws out_of_range
stoi(text) == DigitsVal(text)

RECURSIVE parseExpr(_, _)
RECURSIVE parseExprLoop(_, _, _)
RECURSIVE parseTerm(_, _)
RECURSIVE parseTermLoop(_, _, _)
RECURSIVE parseFactor(_, _)

parseFactor(s, p) ==
    IF p.current.type = "Number"
    THEN IF Len(p.current.text) > 9 THEN SyntaxError("stoi", p)
         ELSE Parsing(NumberExpr(stoi(p.current.text)), Sprout_advance(s, p))
    ELSE IF p.current.type = "Identifier"
    THEN Parsing(VariableExpr(p.current.text), Sprout_advance(s, p))
    ELSE IF p.current.type = "LParen"
    THEN Then(parseExpr(s, Sprout_advance(s, p)), LAMBDA e :
         Then(Sprout_expect(s, e.p, "RParen"), LAMBDA r : Parsing(e.val, r.p)))
    ELSE SyntaxError("syntax error in factor", p)

\* The loop of parseTerm, with left parsed and the parser at p
parseTermLoop(s, left, p) ==
    IF p.current.type = "Star" \/ p.current.type = "Slash"
    THEN Then(parseFactor(s, Sprout_advance(s, p)), LAMBDA r :
              parseTermLoop(s, SproutBinaryExpr(p.current.text[1], left, r.val), r.p))
    ELSE Parsing(left, p)

parseTerm(s, p) == Then(parseFactor(s, p), LAMBDA l : parseTermLoop(s, l.val, l.p))

\* The loop of parseExpr, with left parsed and the parser at p
parseExprLoop(s, left, p) ==
    IF p.current.type = "Plus" \/ p.current.type = "Minus"
    THEN Then(parseTerm(s, Sprout_advance(s, p)), LAMBDA r :
              parseExprLoop(s, SproutBinaryExpr(p.current.text[1], left, r.val), r.p))
    ELSE Parsing(left, p)

parseExpr(s, p) == Then(parseTerm(s, p), LAMBDA l : parseExprLoop(s, l.val, l.p))

parseLet(s, p) ==
    Then(Sprout_expect(s, p, "Let"), LAMBDA a :
    Then(Sprout_expect(s, a.p, "Identifier"), LAMBDA b :
    Then(Sprout_expect(s, b.p, "Equals"), LAMBDA c :
    Then(parseExpr(s, c.p), LAMBDA e :
    Then(Sprout_expect(s, e.p, "Semicolon"), LAMBDA d :
    Parsing(LetStmt(a.p.current.text, e.val), d.p))))))

parsePrint(s, p) ==
    Then(Sprout_expect(s, p, "Print"), LAMBDA a :
    Then(parseExpr(s, a.p), LAMBDA e :
    Then(Sprout_expect(s, e.p, "Semicolon"), LAMBDA d :
    Parsing(PrintStmt(e.val), d.p))))

parseStatement(s, p) ==
    IF p.current.type = "Let" THEN parseLet(s, p)
    ELSE IF p.current.type = "Print" THEN parsePrint(s, p)
    ELSE Then(parseExpr(s, p), LAMBDA e :
         Then(Sprout_expect(s, e.p, "Semicolon"), LAMBDA d :
         Parsing(ExprStmt(e.val), d.p)))

\* The loop of parseProgram, with stmts parsed and the parser at p
RECURSIVE parseProgramLoop(_, _, _)
parseProgramLoop(s, stmts, p) ==
    IF p.current.type = "EndOfFile" THEN Parsing(stmts, p)
    ELSE Then(parseStatement(s, p), LAMBDA r :
              parseProgramLoop(s, Append(stmts, r.val), r.p))

\* Parser parser(lexer), whose constructor calls advance(), and parseProgram()
parseProgram(s) ==
    parseProgramLoop(s, <<>>,
                     Sprout_advance(s, [pos |-> 0, current |-> SproutToken("Unknown", <<>>)]))

-----------------------------------------------------------------------------
(* Sprout: OpCode.h, Compiler.h *)

OP_CONST_INT == 0
OP_LOAD_VAR == 1
OP_STORE_VAR == 2
OP_ADD == 3
OP_SUB == 4
OP_MUL == 5
OP_DIV == 6
OP_PRINT == 7
OP_POP == 8
OP_HALT == 9

\* Instruction{ op, operand }
Instruction(op, operand) == [op |-> op, operand |-> operand]

\* byteCode.push_back(ins) on the compiler c
Emit(c, ins) == [c EXCEPT !.byteCode = Append(@, ins)]

\* The index of the first element of names that is name, or 0
IndexIn(names, name) ==
    IF \E i \in 1..Len(names) : names[i] = name
    THEN CHOOSE i \in 1..Len(names) : names[i] = name /\ \A j \in 1..(i - 1) : names[j] # name
    ELSE 0

\* Compiler::findVarIndex(name): [c, idx], zero-based
findVarIndex(c, name) ==
    IF IndexIn(c.varNames, name) # 0 THEN [c |-> c, idx |-> IndexIn(c.varNames, name) - 1]
    ELSE [c |-> [c EXCEPT !.varNames = Append(@, name)], idx |-> Len(c.varNames)]

\* The opcode compileExpr emits for a binary operator, or -1 for none
ArithmeticOp(op) ==
    CASE op = "+" -> OP_ADD
      [] op = "-" -> OP_SUB
      [] op = "*" -> OP_MUL
      [] op = "/" -> OP_DIV
      [] OTHER -> -1

\* Compiler::compileExpr(e): the compiler after it
RECURSIVE compileExpr(_, _)
compileExpr(c, e) ==
    CASE e.tag = "Number" -> Emit(c, Instruction(OP_CONST_INT, e.value))
      [] e.tag = "Variable" ->
            Let(findVarIndex(c, e.name), LAMBDA f : Emit(f.c, Instruction(OP_LOAD_VAR, f.idx)))
      [] e.tag = "Binary" ->
            Let(compileExpr(compileExpr(c, e.left), e.right), LAMBDA r :
                IF ArithmeticOp(e.op) = -1 THEN r
                ELSE Emit(r, Instruction(ArithmeticOp(e.op), 0)))

\* Compiler::compileStmt(s): the compiler after it
compileStmt(c, s) ==
    CASE s.tag = "Let" ->
            Let(findVarIndex(compileExpr(c, s.expr), s.name), LAMBDA f :
                Emit(f.c, Instruction(OP_STORE_VAR, f.idx)))
      [] s.tag = "Print" ->
            Emit(Emit(compileExpr(c, s.expr), Instruction(OP_PRINT, 0)), Instruction(OP_POP, 0))
      [] s.tag = "Expr" -> Emit(compileExpr(c, s.expr), Instruction(OP_POP, 0))

\* `for (Stmt* s : statements) compileStmt(s)` from statement k on
RECURSIVE compileStmts(_, _, _)
compileStmts(c, statements, k) ==
    IF k > Len(statements) THEN c
    ELSE compileStmts(compileStmt(c, statements[k]), statements, k + 1)

\* Compiler::compile(statements): the compiler after it, whose byteCode it returns
Sprout_compile(c, statements) ==
    Emit(compileStmts([c EXCEPT !.byteCode = <<>>], statements, 1), Instruction(OP_HALT, 0))

-----------------------------------------------------------------------------
(* Sprout: VM.h *)

\* VM(code, varNames)
SproutVM(code, varNames) ==
    [code |-> code, pc |-> 0, stack |-> <<>>, vars |-> [i \in 1..Len(varNames) |-> 0]]

\* What one iteration of the loop of VM::run comes to: it goes on to the next,
\* run() returns, run() throws, or the behaviour is undefined; out is what it
\* wrote to cout
Goes(v) == [vm |-> v, to |-> "demo_run", what |-> "", out |-> <<>>]
Prints(v, x) == [vm |-> v, to |-> "demo_run", what |-> "", out |-> <<[printed |-> x]>>]
Returns(v) == [vm |-> v, to |-> "demo_returned", what |-> "", out |-> <<>>]
Throws(v, msg) == [vm |-> v, to |-> "thrown", what |-> msg, out |-> <<>>]
Undefines(v, why) == [vm |-> v, to |-> "undefined", what |-> why, out |-> <<>>]

\* VM::push(x)
VM_push(v, x) == [v EXCEPT !.stack = Append(@, x)]

\* The VM after a pop() that returned
VM_popped(v) == [v EXCEPT !.stack = SubSeq(@, 1, Len(@) - 1)]

\* push(x) of an arithmetic result; signed overflow of int is undefined
VM_result(v, x) ==
    IF x > IntMax \/ x < IntMin THEN Undefines(v, "signed integer overflow")
    ELSE Goes(VM_push(v, x))

\* b = pop(); a = pop(); push(a op b), on the VM v
VM_arith(v, op) ==
    IF v.stack = <<>> THEN Throws(v, "stack underflow")
    ELSE IF Len(v.stack) = 1 THEN Throws(VM_popped(v), "stack underflow")
    ELSE Let(VM_popped(VM_popped(v)), LAMBDA w :
         Let(v.stack[Len(v.stack) - 1], LAMBDA a :
         Let(v.stack[Len(v.stack)], LAMBDA b :
             CASE op = OP_ADD -> VM_result(w, a + b)
               [] op = OP_SUB -> VM_result(w, a - b)
               [] op = OP_MUL -> VM_result(w, a * b)
               [] op = OP_DIV ->
                     IF b = 0 THEN Undefines(w, "integer division by zero")
                     ELSE VM_result(w, TruncDiv(a, b)))))

\* case OP_STORE_VAR with val popped
VM_store(v, operand, val) ==
    [v EXCEPT !.vars = [i \in 1..(IF operand >= Len(v.vars) THEN operand + 1 ELSE Len(v.vars))
                           |-> IF i = operand + 1 THEN val
                               ELSE IF i <= Len(v.vars) THEN v.vars[i] ELSE 0]]

\* The switch of VM::run on the instruction ins, with pc already past it
VM_switch(v, ins) ==
    CASE ins.op = OP_CONST_INT -> Goes(VM_push(v, ins.operand))
      [] ins.op = OP_LOAD_VAR ->
            IF ins.operand < 0 \/ ins.operand >= Len(v.vars) THEN Throws(v, "vector::at")
            ELSE Goes(VM_push(v, v.vars[ins.operand + 1]))
      [] ins.op = OP_STORE_VAR ->
            IF v.stack = <<>> THEN Throws(v, "stack underflow")
            ELSE Goes(VM_store(VM_popped(v), ins.operand, v.stack[Len(v.stack)]))
      [] ins.op \in {OP_ADD, OP_SUB, OP_MUL, OP_DIV} -> VM_arith(v, ins.op)
      [] ins.op = OP_PRINT ->
            IF v.stack = <<>> THEN Throws(v, "stack underflow")
            ELSE Prints(VM_popped(v), v.stack[Len(v.stack)])
      [] ins.op = OP_POP ->
            IF v.stack = <<>> THEN Throws(v, "stack underflow")
            ELSE Goes(VM_popped(v))
      [] ins.op = OP_HALT -> Returns(v)
      [] OTHER -> Goes(v)

\* One iteration of `while (pc < code.size())`, or the end of the loop
VM_run(v) ==
    IF v.pc >= Len(v.code) THEN Returns(v)
    ELSE VM_switch([v EXCEPT !.pc = @ + 1], v.code[v.pc + 1])

-----------------------------------------------------------------------------
(* Sprout: Demo.cpp *)

\* Lexer lexer(code); Parser parser(lexer); statements = parser.parseProgram();
\* nothing catches what the parser throws
DemoParsed(r) ==
    /\ pc' = IF r.ok THEN "demo_compile" ELSE "thrown"
    /\ prog' = IF r.ok THEN r.val ELSE prog
    /\ what' = IF r.ok THEN what ELSE r.err

DemoParse ==
    /\ pc = "demo"
    /\ DemoParsed(parseProgram(src))
    /\ UNCHANGED <<src, errtok, functions, stack, frames, trace, cerr, cout, lex, tokens,
                   compiler, vm, input>>

\* byteCode = compiler.compile(statements), the listing of the byte code, and
\* VM vm(byteCode, compiler.getVarNames())
DemoCompiled(c) ==
    /\ compiler' = c
    /\ cout' = Append(cout, [listing |-> c.byteCode])
    /\ vm' = SproutVM(c.byteCode, c.varNames)

DemoCompile ==
    /\ pc = "demo_compile"
    /\ DemoCompiled(Sprout_compile(compiler, prog))
    /\ pc' = "demo_run"
    /\ UNCHANGED <<src, what, errtok, prog, functions, stack, frames, trace, cerr, lex,
                   tokens, input>>

\* One iteration of the loop of vm.run() came to r
DemoRan(r) ==
    /\ vm' = r.vm
    /\ pc' = r.to
    /\ what' = r.what
    /\ cout' = cout \o r.out

DemoRun ==
    /\ pc = "demo_run"
    /\ DemoRan(VM_run(vm))
    /\ UNCHANGED <<src, errtok, prog, functions, stack, frames, trace, cerr, lex, tokens,
                   compiler, input>>

SproutNext == DemoParse \/ DemoCompile \/ DemoRun

\* The words statements are written with
S_let == <<"l", "e", "t">>
S_print == <<"p", "r", "i", "n", "t">>

\* The statements programs are made of, each a sequence of words; the first
\* three are the statements of the program in Demo()
SproutStatements ==
    << <<S_let, <<"x">>, <<"=">>, <<"1", "0">>, <<";">> >>,
       <<S_let, <<"y">>, <<"=">>, <<"x">>, <<"*">>, <<"2">>, <<"+">>, <<"3">>, <<";">> >>,
       <<S_print, <<"y">>, <<";">> >>,
       <<S_print, <<"1">>, <<"+">>, <<"x">>, <<";">> >>,
       << <<"x">>, <<"+">>, <<"1">>, <<";">> >>,
       << <<"(">>, <<"1">>, <<"+">>, <<"2">>, <<")">>, <<"*">>, <<"3">>, <<";">> >>,
       <<S_let, <<"x">>, <<"=">>, <<"x">>, <<"-">>, <<"7">>, <<"/">>, <<"2">>, <<";">> >>,
       << <<"7">>, <<"/">>, <<"y">>, <<";">> >>,
       <<S_let, <<"z">>, <<"=">>, <<"4">>, <<";">> >> >>

\* Texts that are no program
SproutBadTexts ==
    { <<S_let, <<"x">>, <<"=">>, <<"5">>, <<"x">>, <<";">> >>,
      <<S_print, <<";">> >>,
      <<S_let, <<"=">>, <<"1">>, <<";">> >>,
      << <<"1">>, <<"+">>, <<"2">> >> }

\* The most statements a program has, the program of Demo() apart
MaxStmts == 2

\* The programs: the statements chosen, by their places in SproutStatements
SproutPrograms ==
    {<<1, 2, 3>>} \cup
    UNION { [1..n -> 1..Len(SproutStatements)] : n \in 0..MaxStmts }

\* The words of the statements ks, in a row
RECURSIVE SproutWords(_)
SproutWords(ks) ==
    IF ks = <<>> THEN <<>> ELSE SproutStatements[ks[1]] \o SproutWords(Tail(ks))

\* The text of words: a blank between two words, and none before a semicolon
RECURSIVE Spaced(_)
Spaced(ws) ==
    IF ws = <<>> THEN <<>>
    ELSE IF Len(ws) = 1 \/ ws[2] = <<";">> THEN ws[1] \o Spaced(Tail(ws))
    ELSE ws[1] \o <<" ">> \o Spaced(Tail(ws))

\* Demo() entered with code = s
StartDemo(s, d) ==
    /\ src = s
    /\ input = d
    /\ pc = "demo"
    /\ what = ""
    /\ errtok = NoToken
    /\ prog = <<>>
    /\ functions = NoFunctions
    /\ stack = <<>>
    /\ frames = <<>>
    /\ trace = <<>>
    /\ cerr = <<>>
    /\ cout = <<>>
    /\ lex = Lexer(src)
    /\ tokens = <<>>
    /\ compiler = NoCompiler
    /\ vm = NoVM

SproutInit ==
    \/ \E ks \in SproutPrograms :
          StartDemo(Spaced(SproutWords(ks)), [family |-> "sprout", k |-> ks])
    \/ \E ws \in SproutBadTexts : StartDemo(Spaced(ws), [family |-> "sproutbad", k |-> <<>>])

SproutSpec == SproutInit /\ [][SproutNext]_vars

-----------------------------------------------------------------------------
(* Properties *)

\* main() has left its try block: run() returned and the result was printed,
\* or an exception was caught
Finished == pc = "done"
Faulted == pc = "thrown"

IntLit(n) == LiteralExpr("Int", n, DblZero, FALSE, <<>>)

\* The value of a body of CallBodies when x and y are the arguments
BodyValue(b, x, y) ==
    CASE b = Id(<<"x">>) -> x
      [] b = Id(<<"y">>) -> y
      [] b = Bin(<<"+">>, Id(<<"x">>), Id(<<"y">>)) -> x + y
      [] b = Bin(<<"-">>, Id(<<"x">>), Id(<<"y">>)) -> x - y
      [] b = Bin(<<"*">>, Id(<<"y">>), Id(<<"x">>)) -> y * x

\* C1: an identifier that names a parameter evaluates to the argument passed
\* for it: a run of `func f(x, y) == body  func main() == f(a1, a2)` ends with
\* the value of body at x = a1, y = a2 on top of the stack, and the demo
\* program ends with Int 7 on top.
C1_ParameterIsArgument ==
    /\ (input.family = "call" /\ Finished) =>
           /\ stack # <<>>
           /\ Top(stack) = make_int(BodyValue(input.k[1], input.k[2], input.k[3]))
    /\ (input.family = "demo" /\ Finished) =>
           /\ stack # <<>>
           /\ Top(stack) = make_int(7)

\* C2: `if c then t else e fi` as main's body ends with t on top of the stack
\* when c is true and with e when c is false.
C2_IfYieldsSelectedBranch ==
    (input.family = "if" /\ Finished /\ ~input.k[2].faults /\ ~input.k[3].faults) =>
        /\ stack # <<>>
        /\ Top(stack) = make_int(IF input.k[1].v THEN input.k[2].v ELSE input.k[3].v)

\* The offsets of main's code at which the code of its if-expression's
\* condition, then-branch and else-branch ends
CodeLen(e) == Len(compile_expr(e, <<>>).code)
CondEnd == CodeLen(prog[1].body.cond)
ThenEnd == CondEnd + CodeLen(prog[1].body.thenBranch)
ElseEnd == ThenEnd + CodeLen(prog[1].body.elseBranch)

\* The offsets of the branch the condition does not select, and of the one it does
Unselected == IF input.k[1].v THEN ThenEnd..(ElseEnd - 1) ELSE CondEnd..(ThenEnd - 1)
Selected == IF input.k[1].v THEN CondEnd..(ThenEnd - 1) ELSE ThenEnd..(ElseEnd - 1)

\* C3: when an if-expression runs, no instruction of the branch its condition
\* does not select is executed, so a fault placed there has no effect and the
\* run ends normally, and a function whose recursive call sits there is
\* entered once only.
C3_OnlySelectedBranchRuns ==
    /\ (input.family = "if" /\ prog # <<>>) =>
           /\ \A i \in 1..Len(trace) :
                  trace[i].fn = MainName => trace[i].ip \notin Unselected
           /\ (~(IF input.k[1].v THEN input.k[2] ELSE input.k[3]).faults) => ~Faulted
           /\ Finished => \E i \in 1..Len(trace) : trace[i].ip \in Selected
    /\ input.family = "rec" => Len(frames) <= 2

\* C4: a fault-free run ends with exactly one value on the operand stack,
\* the value of main's body: every expression, an if-expression or a call
\* included, leaves the stack exactly one value deeper.
C4_OneValuePerExpression ==
    (Finished /\ MainName \in DOMAIN functions) => Len(stack) = 1

\* The levels of the binary operators, from the loosest to the tightest
Level(op) ==
    CASE op \in OrOps -> 1
      [] op \in AndOps -> 2
      [] op \in EqualityOps -> 3
      [] op \in RelationalOps -> 4
      [] op \in AdditiveOps -> 5
      [] op \in MultiplicativeOps -> 6

\* The parser returned, and its first function's body is the tree e
ParsedAs(e) == pc # "parse" => (prog # <<>> /\ prog[1].body = e)

\* The tree of `2 op1 3 op2 4` when the operators are of different levels: the
\* middle operand goes to the operator of the higher level
PairTree(op1, op2) ==
    IF Level(op1) < Level(op2)
    THEN BinaryExpr(op1, IntLit(2), BinaryExpr(op2, IntLit(3), IntLit(4)))
    ELSE BinaryExpr(op2, BinaryExpr(op1, IntLit(2), IntLit(3)), IntLit(4))

\* The tree of `u2 op 3` (side 1) and of `2 op u3` (side 2) for a unary operator u
UnaryTree(u, op, side) ==
    IF side = 1 THEN BinaryExpr(op, UnaryExpr(u, IntLit(2)), IntLit(3))
    ELSE BinaryExpr(op, IntLit(2), UnaryExpr(u, IntLit(3)))

\* The tree of `(2 op1 3) op2 4` (side 1) and of `2 op1 (3 op2 4)` (side 2)
ParenTree(op1, op2, side) ==
    IF side = 1 THEN BinaryExpr(op2, BinaryExpr(op1, IntLit(2), IntLit(3)), IntLit(4))
    ELSE BinaryExpr(op1, IntLit(2), BinaryExpr(op2, IntLit(3), IntLit(4)))

\* What C5 says of the programs whose operators are all among ops
PrecedenceOver(ops) ==
    /\ (input.family = "pair" /\ input.k[1] \in ops /\ input.k[2] \in ops
            /\ Level(input.k[1]) # Level(input.k[2])) =>
           ParsedAs(PairTree(input.k[1], input.k[2]))
    /\ (input.family = "unary" /\ input.k[2] \in ops) =>
           ParsedAs(UnaryTree(input.k[1], input.k[2], input.k[3]))
    /\ (input.family = "paren" /\ input.k[1] \in ops /\ input.k[2] \in ops) =>
           ParsedAs(ParenTree(input.k[1], input.k[2], input.k[3]))
    /\ (input.family = "example" /\ input.k = <<1>> /\ pc \in {"done", "thrown"}) =>
           stack = <<make_int(14)>>
    /\ (input.family = "example" /\ input.k = <<2>> /\ pc \in {"done", "thrown"}) =>
           stack = <<make_int(20)>>

\* C5: for binary operators op1, op2 of different levels `a op1 b op2 c` gives
\* the middle operand to the operator of the higher level, in either order; a
\* unary `-` or `!` binds tighter than every binary operator; a parenthesised
\* expression is one operand; `2 + 3 * 4` is 14 and `(2 + 3) * 4` is 20.
C5_PrecedenceLevels == PrecedenceOver(BinaryOpTexts)

\* The operators that reach the parser as one token
LexedOps == BinaryOpTexts \ { <<"<", "=">>, <<">", "=">> }

\* C5, for the operators other than `<=` and `>=`
C5_PrecedenceOfLexedOps == PrecedenceOver(LexedOps)

\* A state in which `2 + 3 * 4` has been parsed with `*` below `+`
C5_Witness ==
    /\ input.family = "pair" /\ input.k = << <<"+">>, <<"*">> >>
    /\ pc = "compile"
    /\ prog[1].body.op = <<"+">> /\ prog[1].body.rhs.tag = "Binary"

\* The left-leaning tree of the chain of the operands from, from + 1, ... that
\* starts with the tree lhs and goes on with the operators ops
RECURSIVE LeftFold(_, _, _)
LeftFold(lhs, ops, from) ==
    IF ops = <<>> THEN lhs
    ELSE LeftFold(BinaryExpr(ops[1], lhs, IntLit(from)), Tail(ops), from + 1)
ChainTree(ops) == LeftFold(IntLit(1), ops, 2)

\* The tree of `9 opx 1 op1 2 op2 3` (side 1) and of `1 op1 2 op2 3 opx 9`
\* (side 2), where op1 and op2 are of one level and opx is of another
ContextTree(ops, opx, side) ==
    IF side = 1
    THEN IF Level(opx) < Level(ops[1])
         THEN BinaryExpr(opx, IntLit(9), ChainTree(ops))
         ELSE LeftFold(BinaryExpr(opx, IntLit(9), IntLit(1)), ops, 2)
    ELSE IF Level(opx) < Level(ops[1])
         THEN BinaryExpr(opx, ChainTree(ops), IntLit(9))
         ELSE BinaryExpr(ops[2], BinaryExpr(ops[1], IntLit(1), IntLit(2)),
                         BinaryExpr(opx, IntLit(3), IntLit(9)))

\* What C6 says of the programs whose operators are all among ops
LeftLeaningOver(ops) ==
    /\ (input.family = "chain" /\ \A i \in 1..Len(input.k[1]) : input.k[1][i] \in ops) =>
           ParsedAs(ChainTree(input.k[1]))
    /\ (input.family = "context" /\ input.k[2] \in ops
            /\ \A i \in 1..Len(input.k[1]) : input.k[1][i] \in ops) =>
           ParsedAs(ContextTree(input.k[1], input.k[2], input.k[3]))
    /\ (input.family = "example" /\ input.k = <<3>> /\ pc \in {"done", "thrown"}) =>
           stack = <<make_int(3)>>
    /\ (input.family = "example" /\ input.k = <<4>> /\ pc \in {"done", "thrown"}) =>
           stack = <<make_int(1)>>

\* C6: a chain of binary operators of one level parses into a left-leaning
\* tree, also after or before an operator of another level; `10 - 4 - 3` is 3
\* and `8 / 4 / 2` is 1.
C6_SameLevelLeftLeaning == LeftLeaningOver(BinaryOpTexts)

\* C6, for the operators other than `<=` and `>=`
C6_LeftLeaningOfLexedOps == LeftLeaningOver(LexedOps)

\* A state in which `1 - 2 + 3 - 4` has been parsed with its last `-` on top
C6_Witness ==
    /\ input.family = "chain" /\ input.k = << <<<<"-">>, <<"+">>, <<"-">>>> >>
    /\ pc = "compile"
    /\ prog[1].body.op = <<"-">> /\ prog[1].body.lhs.op = <<"+">>
    /\ prog[1].body.lhs.lhs.op = <<"-">>

\* q is a divided by b with the fraction dropped: a = q * b + r for a remainder
\* r smaller than b that is zero or has the sign of a
IsTruncatedQuotient(q, a, b) ==
    \E r \in (1 - Abs(b))..(Abs(b) - 1) :
        /\ a = q * b + r
        /\ r # 0 => (r < 0) = (a < 0)

\* C7: a run of `a / b` ends, when b is not 0, with the quotient truncated
\* toward zero as the only value on the stack and, when b is 0, with the
\* division-by-zero fault and no result pushed.
C7_DivTruncatesTowardZero ==
    (input.family = "binop" /\ input.k[1] = <<"/">>) =>
        /\ pc # "undefined"
        /\ pc \in {"returned", "done"} =>
               /\ input.k[3] # 0
               /\ Len(stack) = 1 /\ stack[1].kind = "Int"
               /\ IsTruncatedQuotient(stack[1].ival, input.k[2], input.k[3])
        /\ Faulted =>
               /\ input.k[3] = 0
               /\ what = "division by zero"
               /\ stack = <<>>

\* A run of `-3 / 2` has ended with -1, where rounding down would give -2
C7_Witness ==
    /\ input.family = "binop" /\ input.k = << <<"/">>, -3, 2 >>
    /\ Finished
    /\ stack = <<make_int(-1)>>

\* The top frame is about to fetch an opcode, and the opcode
AtOpcode ==
    /\ pc = "loop" /\ frames # <<>>
    /\ Top(frames).ip < Len(functions[Top(frames).fn].code)
NextOp == functions[Top(frames).fn].code[Top(frames).ip + 1]

\* The immediates of the CALL the top frame is about to fetch
NextCallee ==
    read_string(functions[Top(frames).fn].code, Top(frames).ip + 5,
                read_u32(functions[Top(frames).fn].code, Top(frames).ip + 1))
NextArgCount ==
    read_u32(functions[Top(frames).fn].code, Top(frames).ip + 5 + Len(NextCallee))

AtUnknownCall == AtOpcode /\ NextOp = CALL /\ NextCallee \notin DOMAIN functions

\* C8: a CALL that names an undeclared function ends the run in the
\* unknown-function fault; it pushes no frame and no value, and run() does not
\* return from a program whose main reaches such a call.
C8_UnknownCallFaults ==
    /\ [][AtUnknownCall =>
              /\ pc' = "thrown" /\ what' = "call to unknown function"
              /\ Len(frames') = Len(frames)
              /\ stack' = stack]_vars
    /\ [](input.family = "unknown" => pc \notin {"returned", "done"})

\* `1 + missing()` has faulted at its CALL with the 1 still on the stack
C8_Witness ==
    /\ input.family = "unknown"
    /\ input.k = <<Bin(<<"+">>, Num(1), CallOf(T_missing, <<>>))>>
    /\ Faulted /\ what = "call to unknown function"
    /\ stack = <<make_int(1)>> /\ Len(frames) = 1

\* C9: without a function named main, run() executes no instruction and does
\* not return normally: the missing entry point reaches the caller as a fault.
C9_MissingMainIsAFault ==
    (MainName \notin DOMAIN functions /\ pc \notin {"parse", "compile", "entry"}) =>
        /\ trace = <<>>
        /\ Faulted

\* The number of values an opcode pops
Pops(op) ==
    IF op \in {ADD, SUB, MUL, DIV, MOD, EQ_OP, NE_OP, LT_OP, LE_OP, GT_OP, GE_OP,
               AND_OP, OR_OP} THEN 2
    ELSE IF op \in {NEG, NOT, POP} THEN 1
    ELSE IF op = CALL THEN NextArgCount
    ELSE 0

\* C10: whenever the VM is about to execute an instruction of a compiled
\* program, the stack holds at least as many values as the instruction pops,
\* and pop() has never run on an empty stack.
C10_OperandsPresent ==
    /\ AtOpcode => Pops(NextOp) <= Len(stack)
    /\ ~(pc = "undefined" /\ what = "pop() on an empty stack")

\* A CALL with two arguments is about to run with just its arguments on the stack
C10_Witness ==
    /\ AtOpcode /\ NextOp = CALL
    /\ NextArgCount = 2 /\ Len(stack) = 2

\* The run of the state is over: main() has printed a result or caught an
\* exception, or the run has met undefined behaviour
RunOver == pc \in {"done", "thrown", "undefined"}

\* The opcode and the operands of a program that applies one binary operator
\* to two operands, written as source text or as bytecode
BinaryCase == input.family \in {"typed", "ops"}
CaseOp == IF input.family = "typed" THEN BinaryOpCode(input.k[1]) ELSE input.k[1]
LeftOperand == input.k[2].v
RightOperand == input.k[3].v
UnaryCase == input.family \in {"typedun", "unops"}
UnaryCaseOp ==
    IF input.family = "unops" THEN input.k[1]
    ELSE IF input.k[1] = <<"-">> THEN NEG ELSE NOT

Numeric(v) == v.kind \in {"Int", "Float"}
TypeFaults == {"type error in ADD", "mod only on ints"}

\* The operand pairs an arithmetic opcode accepts
ArithmeticAccepts(op, a, b) ==
    \/ a.kind = "Int" /\ b.kind = "Int"
    \/ op # MOD /\ Numeric(a) /\ Numeric(b)
    \/ op = ADD /\ a.kind = "String" /\ b.kind = "String"

\* C11: ADD, SUB, MUL, DIV and MOD end in a fault, pushing nothing, for every
\* operand pair other than Int/Int, a numeric pair with a Float (not for MOD)
\* and String/String (ADD only); on the pairs they accept they raise no type
\* fault.
C11_ArithmeticTypeFaults ==
    (BinaryCase /\ CaseOp \in {ADD, SUB, MUL, DIV, MOD} /\ RunOver) =>
        IF ArithmeticAccepts(CaseOp, LeftOperand, RightOperand)
        THEN ~(Faulted /\ what \in TypeFaults)
        ELSE Faulted /\ stack = <<>>

\* C12: AND and OR push the Bool result when both operands are Bool, and end
\* in a fault, pushing nothing, when an operand is of another kind.
C12_LogicalOperandsAreBool ==
    (BinaryCase /\ CaseOp \in {AND_OP, OR_OP} /\ RunOver) =>
        IF LeftOperand.kind = "Bool" /\ RightOperand.kind = "Bool"
        THEN /\ Finished
             /\ stack = <<make_bool(IF CaseOp = AND_OP
                                    THEN LeftOperand.bval /\ RightOperand.bval
                                    ELSE LeftOperand.bval \/ RightOperand.bval)>>
        ELSE Faulted /\ stack = <<>>

\* C13: NEG of an Int pushes the negated Int, NEG of a Float the negated Float,
\* and NEG of a Bool, a String or no value faults and pushes nothing.
C13_NegPreservesKind ==
    (UnaryCase /\ UnaryCaseOp = NEG /\ RunOver) =>
        CASE input.k[2].v.kind = "Int" ->
                Finished /\ stack = <<make_int(0 - input.k[2].v.ival)>>
          [] input.k[2].v.kind = "Float" ->
                /\ Finished
                /\ stack = <<make_float([n |-> 0 - input.k[2].v.fval.n,
                                         d |-> input.k[2].v.fval.d])>>
          [] OTHER -> Faulted /\ stack = <<>>

\* The number an operand stands for once widened to float, as a fraction (the
\* integer field of an operand that is no Float), and the outcome of a
\* comparison of two fractions with positive denominators
Fraction(v) == IF v.kind = "Float" THEN v.fval ELSE [n |-> v.ival, d |-> 1]
Compared(op, x, y) ==
    CASE op = EQ_OP -> x.n * y.d = y.n * x.d
      [] op = NE_OP -> x.n * y.d # y.n * x.d
      [] op = LT_OP -> x.n * y.d < y.n * x.d
      [] op = LE_OP -> x.n * y.d <= y.n * x.d
      [] op = GT_OP -> x.n * y.d > y.n * x.d
      [] op = GE_OP -> x.n * y.d >= y.n * x.d
Comparisons == {EQ_OP, NE_OP, LT_OP, LE_OP, GT_OP, GE_OP}

\* C14: a comparison opcode pops two operands and pushes one Bool whatever the
\* kinds of its operands, and never faults; on two Ints the Bool is the integer
\* comparison, and when either operand is a Float it is the comparison of the
\* two widened to float.
C14_ComparisonPushesOneBool ==
    /\ [][(AtOpcode /\ NextOp \in Comparisons) =>
            /\ pc' # "thrown" /\ pc' # "undefined"
            /\ Len(stack) >= 2
            /\ Len(stack') = Len(stack) - 1
            /\ Front(stack', 1) = Front(stack, 2)
            /\ Top(stack').kind = "Bool"]_vars
    /\ []((BinaryCase /\ CaseOp \in Comparisons /\ RunOver) =>
            /\ Finished
            /\ Len(stack) = 1 /\ Top(stack).kind = "Bool"
            /\ (\/ LeftOperand.kind = "Int" /\ RightOperand.kind = "Int"
                \/ LeftOperand.kind = "Float" \/ RightOperand.kind = "Float") =>
                   Top(stack).bval = Compared(CaseOp, Fraction(LeftOperand),
                                              Fraction(RightOperand)))

\* `2 <= 2.0`, as bytecode, has pushed true
C14_Witness ==
    /\ input.family = "ops" /\ input.k[1] = LE_OP
    /\ LeftOperand = make_int(2) /\ RightOperand = make_float(Dbl(2, 1))
    /\ Finished /\ stack = <<make_bool(TRUE)>>

\* The top frame is about to fetch a CALL of a declared function that has at
\* least as many local slots as the CALL has arguments
AtCall ==
    /\ AtOpcode /\ NextOp = CALL
    /\ NextCallee \in DOMAIN functions
    /\ functions[NextCallee].nlocals >= NextArgCount

\* The cursor of the top frame once it has fetched the CALL it is at
AfterCall == Top(frames).ip + 1 + 4 + Len(NextCallee) + 4

\* C15: a CALL with n arguments of a declared callee with at least n locals
\* pops exactly the n topmost values into the locals 0..n-1 of one new frame,
\* first-pushed argument first, leaves the values below them and the frames
\* below the caller unchanged, moves the caller's cursor past the CALL and
\* changes nothing else of the caller's frame; the new frame's cursor is 0.
C15_CallMovesArguments ==
    [][AtCall =>
        /\ pc' = "loop"
        /\ Len(stack) >= NextArgCount
        /\ stack' = Front(stack, NextArgCount)
        /\ Len(frames') = Len(frames) + 1
        /\ Front(frames', 2) = Front(frames, 1)
        /\ frames'[Len(frames)] = [Top(frames) EXCEPT !.ip = AfterCall]
        /\ Top(frames').fn = NextCallee
        /\ Top(frames').ip = 0
        /\ \A k \in 1..NextArgCount :
               Top(frames').locals[k] = stack[Len(stack) - NextArgCount + k]]_vars

\* main's `9 + f(1, 2) * 2` has just called f: 1 is in slot 0, 2 in slot 1,
\* and the 9 is what is left on the stack
C15_Witness ==
    /\ input.family = "calls" /\ input.k = <<1, 2>>
    /\ pc = "loop" /\ Len(frames) = 2
    /\ Top(frames).fn = T_f /\ Top(frames).ip = 0
    /\ Top(frames).locals[1] = make_int(1) /\ Top(frames).locals[2] = make_int(2)
    /\ stack = <<make_int(9)>>

\* The top frame is about to return: it is at a RET or past the end of its code
AtReturn == pc = "loop" /\ (~AtOpcode \/ NextOp = RET)

\* C16: each iteration fetches from the top frame; the depth of the frame stack
\* grows, by one, only in an iteration that executes a CALL, shrinks, by one,
\* exactly in the iterations that execute RET or find the top frame's cursor
\* past the end of its code, and no iteration changes a frame below the top.
C16_FramesAreLifo ==
    [][pc = "loop" =>
        /\ trace' = Append(trace, [fn |-> Top(frames).fn, ip |-> Top(frames).ip])
        /\ Len(frames') - Len(frames) \in {-1, 0, 1}
        /\ Len(frames') = Len(frames) + 1 => (AtOpcode /\ NextOp = CALL)
        /\ Len(frames') = Len(frames) - 1 <=> AtReturn
        /\ AtCall => Len(frames') = Len(frames) + 1
        /\ Front(frames, 1) = SubSeq(frames', 1, Len(frames) - 1)]_vars

\* g, called by f, called by main, has returned to f
C16_Witness ==
    /\ input.family = "calls"
    /\ pc = "loop" /\ Len(frames) = 2 /\ Top(frames).fn = T_f
    /\ \E i \in 1..Len(trace) : trace[i].fn = T_g

\* The cursor ip in code stands right after a CALL instruction
RECURSIVE AfterSomeCall(_, _, _)
AfterSomeCall(code, ip, c) ==
    IF c + 9 > ip THEN FALSE
    ELSE \/ code[c + 1] = CALL /\ c + 9 + read_u32(code, c + 1) = ip
         \/ AfterSomeCall(code, ip, c + 1)

\* C17: RET and the implicit return pop the top frame and nothing else: the
\* operand stack is as the callee left it, the frames below are unchanged, and
\* every frame below the top waits right after a CALL; the return of the last
\* frame ends run(), and the top of the stack is then printed as the result.
C17_ReturnKeepsTheStack ==
    /\ [][AtReturn =>
            /\ stack' = stack
            /\ frames' = Front(frames, 1)
            /\ pc' = IF Len(frames) = 1 THEN "returned" ELSE "loop"]_vars
    /\ [](pc = "loop" =>
            \A j \in 1..(Len(frames) - 1) :
                AfterSomeCall(functions[frames[j].fn].code, frames[j].ip, 0))
    /\ []((Finished /\ frames = <<>> /\ stack # <<>> /\ MainName \in DOMAIN functions) =>
            cout[Len(cout)] = [result |-> Top(stack)])

\* g has returned to f, right after f's CALL, leaving its 4 above f's 8 and
\* main's 9
C17_Witness ==
    /\ input.family = "calls"
    /\ pc = "loop" /\ Len(frames) = 2 /\ Top(frames).fn = T_f
    /\ stack = <<make_int(9), make_int(8), make_int(4)>>
    /\ AfterSomeCall(functions[T_f].code, Top(frames).ip, 0)

\* parse_program has thrown: main() caught an exception before it had a Program
ParseFailed == pc = "thrown" /\ prog = <<>> /\ frames = <<>>

\* What main() and the parser have printed names the offset and the text of
\* token t
Reported(t) ==
    \E i \in 1..Len(cerr) :
        /\ "pos" \in DOMAIN cerr[i]
        /\ cerr[i].pos = t.pos /\ cerr[i].got = t.text

\* C18: a parse failure stops parse_program at the first offending token, no
\* Program reaches the compiler, and the error names that token's offset and
\* text.
C18_ParseErrorNamesTheToken ==
    /\ ParseFailed =>
           /\ functions = NoFunctions /\ cout = <<>> /\ stack = <<>>
           /\ Reported(errtok)
    /\ input.family = "syntax" =>
           /\ pc \in {"parse", "thrown"}
           /\ pc = "thrown" =>
                  /\ ParseFailed
                  /\ errtok.pos = input.k[1] /\ errtok.text = input.k[2]

\* The tokens of a text: what Lexer::next() returns call after call, up to and
\* with the End token
RECURSIVE TokensFrom(_, _)
TokensFrom(s, lx) ==
    Let(Lexer_next(s, lx), LAMBDA r :
        IF r.tok.kind = "End" THEN <<r.tok>> ELSE <<r.tok>> \o TokensFrom(s, r.lx))
Tokens(s) == TokensFrom(s, Lexer(s))

\* C19: each of `->`, `==`, `!=`, `<=`, `>=` is one token of its own kind, and
\* `-`, `=`, `!`, `<`, `>` are one-character tokens where the completing
\* character does not follow: `1 op 2` is three tokens and End, and `a <= b`
\* and `a >= b` parse as a comparison.
C19_TwoCharacterOperators ==
    /\ input.family = "lexop" =>
           /\ Len(Tokens(src)) = 4
           /\ Tokens(src)[2].text = input.k[1]
           /\ Tokens(src)[2].kind = input.k[2]
    /\ (input.family = "binop" /\ input.k[1] \in {<<"<", "=">>, <<">", "=">>}
            /\ pc # "parse") =>
           /\ ~ParseFailed
           /\ Len(prog) = 1
           /\ prog[1].body.tag = "Binary" /\ prog[1].body.op = input.k[1]

\* C20: a run of digits is a float literal exactly when `.` and a digit, or an
\* exponent marker with its optional sign, follow it; otherwise it is an
\* integer literal of just the digits, and a `.` that no digit follows is a
\* token of its own.
C20_FloatNeedsFractionDigits ==
    input.family = "number" =>
        /\ Tokens(src)[1].kind = input.k[1]
        /\ Tokens(src)[1].text = SubSeq(src, 1, input.k[2])
        /\ Tokens(src)[2].kind = input.k[3]

\* The Literal node of a value, and of a string
LiteralOf(v) == LiteralExpr(v.kind, v.ival, v.fval, v.bval, v.sval)
StringLit(c) == LiteralOf(make_string(c))
BareMain(e) == FuncDecl(MainName, <<>>, T_int, e)

\* C21: a literal token is parsed into a Literal node of its kind and value
\* wherever an operand may stand; a string literal is an operand whatever its
\* content, never a unary or binary operator.
C21_LiteralsAreOperands ==
    /\ input.family = "typed" =>
           ParsedAs(BinaryExpr(input.k[1], LiteralOf(input.k[2].v), LiteralOf(input.k[3].v)))
    /\ (input.family = "strlit" /\ pc # "parse") =>
           CASE input.k[2] = 1 -> ParsedAs(StringLit(input.k[1]))
             [] input.k[2] = 2 ->
                    ParsedAs(BinaryExpr(<<"+">>, StringLit(<<"a">>), StringLit(input.k[1])))
             [] input.k[2] = 3 ->
                    ParsedAs(BinaryExpr(<<"+">>, StringLit(input.k[1]), StringLit(<<"a">>)))
             [] input.k[2] = 4 ->
                    prog = <<BareMain(IntLit(1)), BareMain(StringLit(input.k[1])),
                             BareMain(IntLit(2))>>

-----------------------------------------------------------------------------
(* The lexer at and before the end of the input *)

\* The token the latest call of next() returned
LastToken == tokens[Len(tokens)]

\* next() has returned End
Exhausted == pc = "lex" /\ tokens # <<>> /\ LastToken.kind = "End"

\* C22: once next() has returned the End token, every later call of next() on
\* the same lexer returns End again, with the same offset, and leaves the
\* cursor where it was
C22_EndForever ==
    [][Exhausted => (tokens' = Append(tokens, LastToken) /\ lex' = lex)]_vars

\* next() was called twice more after the End of a text that has tokens and
\* ends in blanks or in a comment
C22_Witness ==
    /\ Exhausted
    /\ Len(tokens) >= 4
    /\ tokens[1].kind # "End"
    /\ tokens[Len(tokens) - 2].kind = "End"
    /\ tokens[Len(tokens) - 3].kind # "End"
    /\ LastToken.pos = Len(src)
    /\ src[Len(src)] \in {" ", "\n", "/"}

\* A call of next() returned: it moved the cursor forward unless it returned
\* End, and left it within the input
Advanced ==
    /\ pc' = "lex"
    /\ lex'.i <= Len(src)
    /\ tokens'[Len(tokens')].kind # "End" => lex'.i >= lex.i + 1

\* End has been returned once next() was called len(input)+1 times
EndInTime == (pc = "lex" /\ Len(tokens) >= Len(src) + 1) => LastToken.kind = "End"

\* C28: tokenizing always finishes: for every input string each call of next()
\* returns (none throws or stops the program), moves the cursor forward by at
\* least one character unless it returns End, never moves it beyond the length
\* of the input, and End is returned after at most len(input)+1 calls
C28_TokenizingFinishes == [][pc = "lex" => Advanced]_vars /\ []EndInTime

\* C28 for the calls that hand no negative char to a <cctype> function
C28_FinishesWhereDefined ==
    [][(pc = "lex" /\ ~ClassifiesNegativeChar(src, lex)) => Advanced]_vars /\ []EndInTime

\* The lexer reached End on a text of three characters that is an unterminated
\* string or character literal ending in a backslash, or that ends in an
\* unrecognized character after a literal left open
C28_Witness ==
    /\ Exhausted
    /\ Len(src) = 3
    /\ lex.i = 3
    /\ \/ src[1] \in {"\"", "'"} /\ src[3] = "\\" /\ Len(tokens) = 2
       \/ src[1] = "'" /\ src[3] = "@" /\ tokens[Len(tokens) - 1].kind = "Unknown"

-----------------------------------------------------------------------------
(* MOD by zero; equality of Bools and of Strings *)

\* r is the remainder of a by b whose sign follows a
IsRemainder(r, a, b) ==
    /\ \E q \in (-Abs(a))..Abs(a) : a = q * b + r
    /\ Abs(r) < Abs(b)
    /\ r # 0 => (r < 0) = (a < 0)

\* C26: MOD on two Ints whose right operand is zero ends in the fault
\* `division by zero`, as DIV does, before any remainder is computed; with a
\* right operand other than zero it pushes the Int remainder, whose sign
\* follows the left operand
C26_ModByZeroFaults ==
    (input.family = "binop" /\ input.k[1] = <<"%">>) =>
        /\ pc # "undefined"
        /\ (RunOver /\ input.k[3] = 0) =>
               Faulted /\ what = "division by zero" /\ stack = <<>>
        /\ (RunOver /\ input.k[3] # 0) =>
               /\ Finished
               /\ Len(stack) = 1 /\ stack[1].kind = "Int"
               /\ IsRemainder(stack[1].ival, input.k[2], input.k[3])

\* C27: EQ on two Bools or on two Strings pushes true exactly when the two
\* are equal, and NE pushes the opposite
C27_EqualityOfBoolsAndStrings ==
    (/\ BinaryCase /\ CaseOp \in {EQ_OP, NE_OP}
     /\ LeftOperand.kind = RightOperand.kind
     /\ LeftOperand.kind \in {"Bool", "String"}
     /\ RunOver) =>
        /\ Finished
        /\ Len(stack) = 1 /\ Top(stack).kind = "Bool"
        /\ Top(stack).bval = ((CaseOp = EQ_OP) = (LeftOperand = RightOperand))

-----------------------------------------------------------------------------
(* The cursor of the VM in compiled streams *)

\* The offsets at which compile_expr(e, code) emits an opcode byte
RECURSIVE EmittedIn(_, _)
EmittedInArgs(args, code) ==
    UNION { EmittedIn(args[k], compile_args(SubSeq(args, 1, k - 1), 1, code).code) :
              k \in 1..Len(args) }
EmittedIn(e, code) ==
    CASE e.tag = "Literal" -> {Len(code)}
      [] e.tag = "Ident" -> {Len(code)}
      [] e.tag = "Unary" ->
            EmittedIn(e.rhs, code) \cup
            (IF e.op \in {<<"-">>, <<"!">>} THEN {Len(compile_expr(e.rhs, code).code)}
             ELSE {})
      [] e.tag = "Binary" ->
            EmittedIn(e.lhs, code) \cup EmittedIn(e.rhs, compile_expr(e.lhs, code).code)
                \cup {Len(compile_expr(e, code).code) - 1}
      [] e.tag = "If" ->
            EmittedIn(e.cond, code) \cup
            EmittedIn(e.thenBranch, compile_expr(e.cond, code).code) \cup
            EmittedIn(e.elseBranch,
                      compile_expr(e.thenBranch, compile_expr(e.cond, code).code).code)
                \cup {Len(compile_expr(e, code).code) - 1}
      [] e.tag = "Call" ->
            EmittedInArgs(e.args, code) \cup {Len(compile_args(e.args, 1, code).code)}

\* The offsets of the opcode bytes in the stream compile() makes of function f:
\* those of its body and the RET after it
EmittedOpcodes(f) == EmittedIn(f.body, <<>>) \cup {Len(compile_expr(f.body, <<>>).code)}

\* The declaration whose stream functions[name] is: the last one of that name
DeclOf(name) ==
    prog[CHOOSE k \in 1..Len(prog) :
            prog[k].name = name /\ \A j \in (k + 1)..Len(prog) : prog[j].name # name]

\* The bytes of immediate that follow the opcode at offset at of code: 8 for
\* PUSH_INT and PUSH_FLOAT, 1 for PUSH_BOOL, 4 + len for PUSH_STRING,
\* 4 + len + 4 for CALL, none for every other opcode
ImmediateBytes(code, at) ==
    CASE code[at + 1] \in {PUSH_INT, PUSH_FLOAT} -> 8
      [] code[at + 1] = PUSH_BOOL -> 1
      [] code[at + 1] = PUSH_STRING -> 4 + LEValue(code, at + 1, 4)
      [] code[at + 1] = CALL -> 4 + LEValue(code, at + 1, 4) + 4
      [] OTHER -> 0

\* The VM is about to fetch an opcode from a stream the Compiler produced
FetchesCompiled == prog # <<>> /\ AtOpcode

FetchedCode == functions[Top(frames).fn].code
FetchedAt == Top(frames).ip

\* C24: whenever the VM fetches an opcode from a stream the Compiler produced,
\* the cursor is at an opcode byte the compiler emitted, and the immediate the
\* instruction reads lies inside the stream: the cursor moves past 8 bytes
\* after PUSH_INT and PUSH_FLOAT, 1 after PUSH_BOOL, 4 + len after PUSH_STRING,
\* 4 + len + 4 after CALL and none after every other opcode
C24_FetchesAtEmittedOpcodes ==
    [][FetchesCompiled =>
          /\ FetchedAt \in EmittedOpcodes(DeclOf(Top(frames).fn))
          /\ FetchedAt + 1 + ImmediateBytes(FetchedCode, FetchedAt) <= Len(FetchedCode)
          /\ Len(frames') >= Len(frames) =>
                 frames'[Len(frames)].ip =
                     FetchedAt + 1 + ImmediateBytes(FetchedCode, FetchedAt)]_vars

\* main's stream is fetched from again after a CALL in it has returned, in a
\* program whose functions call each other
C24_Witness ==
    /\ input.family = "calls"
    /\ Finished
    /\ \E k \in 1..(Len(trace) - 1) :
           /\ functions[trace[k].fn].code[trace[k].ip + 1] = RET
           /\ trace[k + 1].fn = MainName
           /\ trace[k + 1].ip > 0

-----------------------------------------------------------------------------
(* Termination of run() *)

\* The names an expression calls
RECURSIVE CalledIn(_)
CalledIn(e) ==
    CASE e.tag = "Call" -> {e.callee} \cup UNION { CalledIn(e.args[k]) : k \in 1..Len(e.args) }
      [] e.tag = "Unary" -> CalledIn(e.rhs)
      [] e.tag = "Binary" -> CalledIn(e.lhs) \cup CalledIn(e.rhs)
      [] e.tag = "If" -> CalledIn(e.cond) \cup CalledIn(e.thenBranch) \cup CalledIn(e.elseBranch)
      [] OTHER -> {}

Declared == { prog[k].name : k \in 1..Len(prog) }

\* The functions the body of a function of set fs calls
CalledBy(fs) == UNION { CalledIn(DeclOf(f).body) : f \in fs \cap Declared }

\* The functions reached from those of fs by n or fewer further calls
RECURSIVE CalledWithin(_, _)
CalledWithin(fs, n) == IF n = 0 THEN fs ELSE CalledWithin(fs \cup CalledBy(fs), n - 1)

\* No function that main reaches calls itself, directly or through others
NoCallCycle ==
    \A f \in CalledWithin({MainName}, Len(prog)) :
        f \notin CalledWithin(CalledBy({f}), Len(prog))

\* run() is entered on the functions compiled from a program without a call cycle
EntersAcyclic == pc = "entry" /\ prog # <<>> /\ NoCallCycle

\* C25: for every compiled program with no call cycle reachable from main,
\* run() eventually stops, because the frame stack has become empty or because
\* a fault was raised, after finitely many instructions
C25_AcyclicRunsStop == EntersAcyclic ~> (pc \in {"returned", "thrown"})

\* C25 with the remainder by zero of C26 counted among the ways a run ends
C25_AcyclicRunsEnd == EntersAcyclic ~> (pc \in {"returned", "thrown", "undefined"})

\* The run of a program whose main calls f, which calls g, has returned to main()
C25_Witness ==
    /\ input.family = "calls"
    /\ NoCallCycle
    /\ pc = "returned"
    /\ frames = <<>>
    /\ Len(trace) > 10

-----------------------------------------------------------------------------
(* Sprout: the operand stack across statements *)

\* The offsets in the byte code at which the code of a statement starts, and
\* the offset of OP_HALT, at which the code of the last one ends
StatementStarts ==
    { Len(compileStmts(NoCompiler, SubSeq(prog, 1, k), 1).byteCode) : k \in 0..Len(prog) }

\* vm.run() is over: it returned, threw, or ran into undefined behaviour
DemoOver == pc \in {"demo_returned", "thrown", "undefined"}

\* What the run has printed
Printed == [i \in 1..(Len(cout) - 1) |-> cout[i + 1].printed]

\* C23: in the statement language the code compiled for every statement (let,
\* print, expression statement) returns the operand stack of the VM to the depth
\* it had before the statement, so the run of any parsed program never raises
\* `stack underflow` and reaches OP_HALT with an empty stack; the program of
\* Demo(), `let x = 10; let y = x * 2 + 3; print y;`, prints 23 and halts
C23_StatementsKeepTheStack ==
    (input.family = "sprout" /\ pc \notin {"demo", "demo_compile"}) =>
        /\ (pc = "demo_run" /\ vm.pc \in StatementStarts) => vm.stack = <<>>
        /\ ~(pc = "thrown" /\ what = "stack underflow")
        /\ DemoOver =>
               /\ pc = "demo_returned"
               /\ vm.code[vm.pc].op = OP_HALT
               /\ vm.stack = <<>>
        /\ (DemoOver /\ input.k = <<1, 2, 3>>) => Printed = <<23>>

\* The program of Demo() has printed 23 and its run is over
C23_Witness ==
    /\ input.family = "sprout" /\ input.k = <<1, 2, 3>>
    /\ DemoOver
    /\ Printed = <<23>>

=============================================================================
